---------------------------- MODULE Spec2Model ----------------------------
(***************************************************************************)
(* Model of pruebas.py: the measurement normalizer                          *)
(* (parse_time_to_microseconds, parse_memory), the preparation of the       *)
(* comparison tables from the six benchmark tables, and the callback that   *)
(* answers a dropdown selection with a figure and a text.                   *)
(*                                                                          *)
(* Text is a sequence of characters, each a one-character string.  A number *)
(* is an IEEE 754 double as Python's float is: a finite value, with its     *)
(* sign (there are two zeros), an infinity or NaN.  Conversions and         *)
(* arithmetic round to the nearest double; the integers they need are kept  *)
(* in limbs, so that every double is a value of the model.                  *)
(***************************************************************************)
EXTENDS Integers, Sequences, FiniteSets, TLC

VARIABLES
    pc,       \* position of the normalizer run: "write", "call", "returned"
    fn,       \* the operation applied: "time" or "memory"
    arg,      \* the argument handed to the operation
    ntok,     \* how many tokens the raw measurement text is made of
    result,   \* what the call produced
    unit,     \* the branch of the operation that produced it
    prev,     \* the result of the previous call of the run
    round,    \* how many times a result has been handed back as argument
    app,      \* position of the module-level start-up code
    data,     \* the six tables load_data returns
    crud_data,   \* prepare_crud_comparison_data(data)
    query_data,  \* prepare_query_comparison_data(data)
    all_data,    \* prepare_antes_despues_comparison_data(data)
    calls,       \* the preparation routines called on the loaded data, in order
    selected,    \* the value the callback was last called with
    outcome,     \* what that call of update_chart came to
    requests     \* how many selections the callback has handled

normVars == <<pc, fn, arg, ntok, result, unit, prev, round>>
appVars == <<app, data, crud_data, query_data, all_data, calls>>
uiVars == <<selected, outcome, requests>>
vars == <<normVars, appVars, uiVars>>

-----------------------------------------------------------------------------
(* Bounds *)

\* Longest generated argument, counted in vocabulary tokens.
MaxTokens == 4

\* How many times a returned number is normalised again.
MaxRounds == 2

\* How many rows the six benchmark reports hold together.
MaxRows == 3

\* How many rows the reports hold together when the server is started.
MaxServedRows == 2

\* How many dropdown selections the callback handles.
MaxRequests == 2

\* How many records the table handed to the operation-type analysis holds.
MaxRecords == 2

-----------------------------------------------------------------------------
(* Python str operations *)

Digits == {"0", "1", "2", "3", "4", "5", "6", "7", "8", "9"}

DigitVal(c) ==
    CASE c = "0" -> 0 [] c = "1" -> 1 [] c = "2" -> 2 [] c = "3" -> 3
      [] c = "4" -> 4 [] c = "5" -> 5 [] c = "6" -> 6 [] c = "7" -> 7
      [] c = "8" -> 8 [] c = "9" -> 9

DigitChar(d) ==
    CASE d = 0 -> "0" [] d = 1 -> "1" [] d = 2 -> "2" [] d = 3 -> "3"
      [] d = 4 -> "4" [] d = 5 -> "5" [] d = 6 -> "6" [] d = 7 -> "7"
      [] d = 8 -> "8" [] d = 9 -> "9"

\* s[i..] starts with pat
StartsAt(s, i, pat) ==
    /\ i + Len(pat) - 1 <= Len(s)
    /\ \A k \in 1..Len(pat) : s[i + k - 1] = pat[k]

\* pat in s
Contains(s, pat) == \E i \in 1..(Len(s) + 1) : StartsAt(s, i, pat)

\* s.replace(old, new) for a non-empty old: every non-overlapping occurrence,
\* scanning from the left.
RECURSIVE ReplaceFrom(_, _, _, _)
ReplaceFrom(s, i, old, new) ==
    IF i > Len(s) THEN <<>>
    ELSE IF StartsAt(s, i, old)
         THEN new \o ReplaceFrom(s, i + Len(old), old, new)
         ELSE <<s[i]>> \o ReplaceFrom(s, i + 1, old, new)

Replace(s, old, new) == ReplaceFrom(s, 1, old, new)

\* The characters float() takes for white space.  A character that a string
\* of this module cannot hold is written by its code point, "U+2003".
Whitespace ==
    { "\t", "\n", "", "\f", "\r", " ",
      "", " ", " ", "U+2000", "U+2001", "U+2002",
      "U+2003", "U+2004", "U+2005", "U+2006", "U+2007", "U+2008",
      "U+2009", "U+200A", "U+2028", "U+2029", "U+202F", "U+205F",
      "U+3000" }

\* The decimal digits of Unicode, a row per script, each row the digits 0 to
\* 9 in order: float() reads every one of them as the ASCII digit.
DecimalDigits ==
    << <<"0", "1", "2", "3", "4", "5", "6", "7", "8", "9">>,
       <<"U+0660", "U+0661", "U+0662", "U+0663", "U+0664", "U+0665", "U+0666", "U+0667", "U+0668", "U+0669">>,
       <<"۰", "۱", "۲", "۳", "۴", "۵", "۶", "۷", "۸", "۹">>,
       <<"߀", "߁", "߂", "߃", "߄", "߅", "߆", "߇", "߈", "߉">>,
       <<"U+0966", "U+0967", "U+0968", "U+0969", "U+096A", "U+096B", "U+096C", "U+096D", "U+096E", "U+096F">>,
       <<"০", "১", "২", "৩", "৪", "৫", "৬", "৭", "৮", "৯">>,
       <<"U+0A66", "U+0A67", "U+0A68", "U+0A69", "U+0A6A", "U+0A6B", "U+0A6C", "U+0A6D", "U+0A6E", "U+0A6F">>,
       <<"૦", "૧", "૨", "૩", "૪", "૫", "૬", "૭", "૮", "૯">>,
       <<"U+0B66", "U+0B67", "U+0B68", "U+0B69", "U+0B6A", "U+0B6B", "U+0B6C", "U+0B6D", "U+0B6E", "U+0B6F">>,
       <<"௦", "௧", "௨", "௩", "௪", "௫", "௬", "௭", "௮", "௯">>,
       <<"U+0C66", "U+0C67", "U+0C68", "U+0C69", "U+0C6A", "U+0C6B", "U+0C6C", "U+0C6D", "U+0C6E", "U+0C6F">>,
       <<"೦", "೧", "೨", "೩", "೪", "೫", "೬", "೭", "೮", "೯">>,
       <<"U+0D66", "U+0D67", "U+0D68", "U+0D69", "U+0D6A", "U+0D6B", "U+0D6C", "U+0D6D", "U+0D6E", "U+0D6F">>,
       <<"෦", "෧", "෨", "෩", "෪", "෫", "෬", "෭", "෮", "෯">>,
       <<"U+0E50", "U+0E51", "U+0E52", "U+0E53", "U+0E54", "U+0E55", "U+0E56", "U+0E57", "U+0E58", "U+0E59">>,
       <<"໐", "໑", "໒", "໓", "໔", "໕", "໖", "໗", "໘", "໙">>,
       <<"U+0F20", "U+0F21", "U+0F22", "U+0F23", "U+0F24", "U+0F25", "U+0F26", "U+0F27", "U+0F28", "U+0F29">>,
       <<"U+1040", "U+1041", "U+1042", "U+1043", "U+1044", "U+1045", "U+1046", "U+1047", "U+1048", "U+1049">>,
       <<"႐", "႑", "႒", "႓", "႔", "႕", "႖", "႗", "႘", "႙">>,
       <<"០", "១", "២", "៣", "៤", "៥", "៦", "៧", "៨", "៩">>,
       <<"U+1810", "U+1811", "U+1812", "U+1813", "U+1814", "U+1815", "U+1816", "U+1817", "U+1818", "U+1819">>,
       <<"U+1946", "U+1947", "U+1948", "U+1949", "U+194A", "U+194B", "U+194C", "U+194D", "U+194E", "U+194F">>,
       <<"᧐", "᧑", "᧒", "᧓", "᧔", "᧕", "᧖", "᧗", "᧘", "᧙">>,
       <<"᪀", "᪁", "᪂", "᪃", "᪄", "᪅", "᪆", "᪇", "᪈", "᪉">>,
       <<"᪐", "᪑", "᪒", "᪓", "᪔", "᪕", "᪖", "᪗", "᪘", "᪙">>,
       <<"U+1B50", "U+1B51", "U+1B52", "U+1B53", "U+1B54", "U+1B55", "U+1B56", "U+1B57", "U+1B58", "U+1B59">>,
       <<"᮰", "᮱", "᮲", "᮳", "᮴", "᮵", "᮶", "᮷", "᮸", "᮹">>,
       <<"U+1C40", "U+1C41", "U+1C42", "U+1C43", "U+1C44", "U+1C45", "U+1C46", "U+1C47", "U+1C48", "U+1C49">>,
       <<"U+1C50", "U+1C51", "U+1C52", "U+1C53", "U+1C54", "U+1C55", "U+1C56", "U+1C57", "U+1C58", "U+1C59">>,
       <<"U+A620", "U+A621", "U+A622", "U+A623", "U+A624", "U+A625", "U+A626", "U+A627", "U+A628", "U+A629">>,
       <<"꣐", "꣑", "꣒", "꣓", "꣔", "꣕", "꣖", "꣗", "꣘", "꣙">>,
       <<"U+A900", "U+A901", "U+A902", "U+A903", "U+A904", "U+A905", "U+A906", "U+A907", "U+A908", "U+A909">>,
       <<"꧐", "꧑", "꧒", "꧓", "꧔", "꧕", "꧖", "꧗", "꧘", "꧙">>,
       <<"꧰", "꧱", "꧲", "꧳", "꧴", "꧵", "꧶", "꧷", "꧸", "꧹">>,
       <<"U+AA50", "U+AA51", "U+AA52", "U+AA53", "U+AA54", "U+AA55", "U+AA56", "U+AA57", "U+AA58", "U+AA59">>,
       <<"꯰", "꯱", "꯲", "꯳", "꯴", "꯵", "꯶", "꯷", "꯸", "꯹">>,
       <<"U+FF10", "U+FF11", "U+FF12", "U+FF13", "U+FF14", "U+FF15", "U+FF16", "U+FF17", "U+FF18", "U+FF19">>,
       <<"U+104A0", "U+104A1", "U+104A2", "U+104A3", "U+104A4", "U+104A5", "U+104A6", "U+104A7", "U+104A8", "U+104A9">>,
       <<"U+10D30", "U+10D31", "U+10D32", "U+10D33", "U+10D34", "U+10D35", "U+10D36", "U+10D37", "U+10D38", "U+10D39">>,
       <<"U+11066", "U+11067", "U+11068", "U+11069", "U+1106A", "U+1106B", "U+1106C", "U+1106D", "U+1106E", "U+1106F">>,
       <<"U+110F0", "U+110F1", "U+110F2", "U+110F3", "U+110F4", "U+110F5", "U+110F6", "U+110F7", "U+110F8", "U+110F9">>,
       <<"U+11136", "U+11137", "U+11138", "U+11139", "U+1113A", "U+1113B", "U+1113C", "U+1113D", "U+1113E", "U+1113F">>,
       <<"U+111D0", "U+111D1", "U+111D2", "U+111D3", "U+111D4", "U+111D5", "U+111D6", "U+111D7", "U+111D8", "U+111D9">>,
       <<"U+112F0", "U+112F1", "U+112F2", "U+112F3", "U+112F4", "U+112F5", "U+112F6", "U+112F7", "U+112F8", "U+112F9">>,
       <<"U+11450", "U+11451", "U+11452", "U+11453", "U+11454", "U+11455", "U+11456", "U+11457", "U+11458", "U+11459">>,
       <<"U+114D0", "U+114D1", "U+114D2", "U+114D3", "U+114D4", "U+114D5", "U+114D6", "U+114D7", "U+114D8", "U+114D9">>,
       <<"U+11650", "U+11651", "U+11652", "U+11653", "U+11654", "U+11655", "U+11656", "U+11657", "U+11658", "U+11659">>,
       <<"U+116C0", "U+116C1", "U+116C2", "U+116C3", "U+116C4", "U+116C5", "U+116C6", "U+116C7", "U+116C8", "U+116C9">>,
       <<"U+11730", "U+11731", "U+11732", "U+11733", "U+11734", "U+11735", "U+11736", "U+11737", "U+11738", "U+11739">>,
       <<"U+118E0", "U+118E1", "U+118E2", "U+118E3", "U+118E4", "U+118E5", "U+118E6", "U+118E7", "U+118E8", "U+118E9">>,
       <<"U+11950", "U+11951", "U+11952", "U+11953", "U+11954", "U+11955", "U+11956", "U+11957", "U+11958", "U+11959">>,
       <<"U+11C50", "U+11C51", "U+11C52", "U+11C53", "U+11C54", "U+11C55", "U+11C56", "U+11C57", "U+11C58", "U+11C59">>,
       <<"U+11D50", "U+11D51", "U+11D52", "U+11D53", "U+11D54", "U+11D55", "U+11D56", "U+11D57", "U+11D58", "U+11D59">>,
       <<"U+11DA0", "U+11DA1", "U+11DA2", "U+11DA3", "U+11DA4", "U+11DA5", "U+11DA6", "U+11DA7", "U+11DA8", "U+11DA9">>,
       <<"U+16A60", "U+16A61", "U+16A62", "U+16A63", "U+16A64", "U+16A65", "U+16A66", "U+16A67", "U+16A68", "U+16A69">>,
       <<"U+16AC0", "U+16AC1", "U+16AC2", "U+16AC3", "U+16AC4", "U+16AC5", "U+16AC6", "U+16AC7", "U+16AC8", "U+16AC9">>,
       <<"U+16B50", "U+16B51", "U+16B52", "U+16B53", "U+16B54", "U+16B55", "U+16B56", "U+16B57", "U+16B58", "U+16B59">>,
       <<"U+1D7CE", "U+1D7CF", "U+1D7D0", "U+1D7D1", "U+1D7D2", "U+1D7D3", "U+1D7D4", "U+1D7D5", "U+1D7D6", "U+1D7D7">>,
       <<"U+1D7D8", "U+1D7D9", "U+1D7DA", "U+1D7DB", "U+1D7DC", "U+1D7DD", "U+1D7DE", "U+1D7DF", "U+1D7E0", "U+1D7E1">>,
       <<"U+1D7E2", "U+1D7E3", "U+1D7E4", "U+1D7E5", "U+1D7E6", "U+1D7E7", "U+1D7E8", "U+1D7E9", "U+1D7EA", "U+1D7EB">>,
       <<"U+1D7EC", "U+1D7ED", "U+1D7EE", "U+1D7EF", "U+1D7F0", "U+1D7F1", "U+1D7F2", "U+1D7F3", "U+1D7F4", "U+1D7F5">>,
       <<"U+1D7F6", "U+1D7F7", "U+1D7F8", "U+1D7F9", "U+1D7FA", "U+1D7FB", "U+1D7FC", "U+1D7FD", "U+1D7FE", "U+1D7FF">>,
       <<"U+1E140", "U+1E141", "U+1E142", "U+1E143", "U+1E144", "U+1E145", "U+1E146", "U+1E147", "U+1E148", "U+1E149">>,
       <<"U+1E2F0", "U+1E2F1", "U+1E2F2", "U+1E2F3", "U+1E2F4", "U+1E2F5", "U+1E2F6", "U+1E2F7", "U+1E2F8", "U+1E2F9">>,
       <<"U+1E950", "U+1E951", "U+1E952", "U+1E953", "U+1E954", "U+1E955", "U+1E956", "U+1E957", "U+1E958", "U+1E959">>,
       <<"U+1FBF0", "U+1FBF1", "U+1FBF2", "U+1FBF3", "U+1FBF4", "U+1FBF5", "U+1FBF6", "U+1FBF7", "U+1FBF8", "U+1FBF9">> >>

Maximum(S) == CHOOSE x \in S : \A y \in S : y <= x
Minimum(S) == CHOOSE x \in S : \A y \in S : x <= y

\* the first and the last index of s whose element is not in cs
FirstOutside(s, cs) == Minimum({i \in 1..Len(s) : s[i] \notin cs} \cup {Len(s) + 1})
LastOutside(s, cs) == Maximum({i \in 1..Len(s) : s[i] \notin cs} \cup {0})

\* s.strip() as float() strips its argument: the white space at both ends
LStrip(s) == SubSeq(s, FirstOutside(s, Whitespace), Len(s))
RStrip(s) == SubSeq(s, 1, LastOutside(s, Whitespace))
Strip(s) == RStrip(LStrip(s))

\* every decimal digit, of any script
DecimalChars ==
    {DecimalDigits[b][d] : b \in 1..Len(DecimalDigits), d \in 1..10}

\* the value of a decimal digit of any script
DecimalValue(c) ==
    (CHOOSE d \in 1..10 : \E b \in 1..Len(DecimalDigits) : DecimalDigits[b][d] = c) - 1

\* float() reads its argument with every white space character turned into
\* a space and every decimal digit into the ASCII digit of its value
AsciiOf(c) ==
    IF c \in Digits THEN c
    ELSE IF c \in Whitespace THEN " "
    ELSE IF c \in DecimalChars THEN DigitChar(DecimalValue(c))
    ELSE c

ToAscii(s) == [i \in 1..Len(s) |-> AsciiOf(s[i])]

\* an underscore is allowed between two digits only
UnderscoresOk(s) ==
    \A i \in 1..Len(s) :
        s[i] = "_" => /\ 1 < i /\ i < Len(s)
                      /\ s[i - 1] \in Digits
                      /\ s[i + 1] \in Digits

\* the text without its underscores, if they are where they are allowed
Ungrouped(s) == IF UnderscoresOk(s) THEN SelectSeq(s, LAMBDA c : c # "_") ELSE s

\* the text float() parses: in ASCII, without the grouping underscores and
\* the white space around it
Literal(t) == Strip(Ungrouped(ToAscii(t)))

-----------------------------------------------------------------------------
(* Natural numbers of any size: the limbs of a number in base 2^15, the     *)
(* least significant first, without a leading zero limb; <<>> is 0.  The   *)
(* loops over the limbs split their range in two halves, the carry of one  *)
(* half going into the other.                                               *)

Max(a, b) == IF a >= b THEN a ELSE b
Least(a, b) == IF a <= b THEN a ELSE b

RECURSIVE Pow2(_)
Pow2(n) == IF n <= 0 THEN 1 ELSE 2 * Pow2(n - 1)

LimbBits == 15
Base == Pow2(LimbBits)

\* the number of bits of n
RECURSIVE BitLength(_)
BitLength(n) == IF n = 0 THEN 0 ELSE 1 + BitLength(n \div 2)

\* how many times 2 divides n, for n > 0
RECURSIVE TrailingZeroBits(_)
TrailingZeroBits(n) == IF n % 2 = 1 THEN 0 ELSE 1 + TrailingZeroBits(n \div 2)

RECURSIVE BigOfInt(_)
BigOfInt(n) == IF n = 0 THEN <<>> ELSE <<n % Base>> \o BigOfInt(n \div Base)

NonZeroLimbs(a) == {i \in 1..Len(a) : a[i] # 0}

\* a without its leading zero limbs
BigTrim(a) ==
    IF NonZeroLimbs(a) = {} THEN <<>> ELSE SubSeq(a, 1, Maximum(NonZeroLimbs(a)))

Limb(a, i) == IF i <= Len(a) THEN a[i] ELSE 0

Middle(lo, hi) == (lo + hi) \div 2

\* the limbs of two adjacent ranges, the carry leaving by the upper one
CarriedUp(low, high) == [limbs |-> low.limbs \o high.limbs, carry |-> high.carry]

\* the same for a division, which goes from the upper range to the lower one
\* and writes the most significant limb first
CarriedDown(low, high) == [limbs |-> high.limbs \o low.limbs, carry |-> low.carry]

Reversed(s) == [i \in 1..Len(s) |-> s[Len(s) + 1 - i]]

\* the number of the limbs and the carry above them
WithCarry(r) == BigTrim(Append(r.limbs, r.carry))

\* limbs lo..hi of a * k + c and the carry out of them, for k <= Base, c < Base
RECURSIVE MulRange(_, _, _, _, _)
RECURSIVE MulUpper(_, _, _, _, _)
MulRange(a, lo, hi, k, c) ==
    IF lo = hi
    THEN [limbs |-> <<(a[lo] * k + c) % Base>>, carry |-> (a[lo] * k + c) \div Base]
    ELSE MulUpper(a, Middle(lo, hi) + 1, hi, k, MulRange(a, lo, Middle(lo, hi), k, c))

MulUpper(a, lo, hi, k, low) == CarriedUp(low, MulRange(a, lo, hi, k, low.carry))

\* a * k + c
BigMulAdd(a, k, c) ==
    IF a = <<>> THEN BigOfInt(c) ELSE WithCarry(MulRange(a, 1, Len(a), k, c))

\* limbs hi..lo of the quotient of a by d and the remainder below them, r
\* being the remainder above them; 0 <= r < d <= Base
RECURSIVE DivRange(_, _, _, _, _)
RECURSIVE DivLower(_, _, _, _, _)
DivRange(a, lo, hi, d, r) ==
    IF lo = hi
    THEN [limbs |-> <<(r * Base + a[lo]) \div d>>, carry |-> (r * Base + a[lo]) % d]
    ELSE DivLower(a, lo, Middle(lo, hi), d, DivRange(a, Middle(lo, hi) + 1, hi, d, r))

DivLower(a, lo, hi, d, high) == CarriedDown(DivRange(a, lo, hi, d, high.carry), high)

Quotient(r) == [q |-> BigTrim(Reversed(r.limbs)), r |-> r.carry]

\* [q, r] with a = q * d + r, for 1 <= d <= Base
BigDivSmall(a, d) ==
    IF a = <<>> THEN [q |-> <<>>, r |-> 0] ELSE Quotient(DivRange(a, 1, Len(a), d, 0))

\* limbs lo..hi of a + b + c and the carry out of them
RECURSIVE AddRange(_, _, _, _, _)
RECURSIVE AddUpper(_, _, _, _, _)
AddRange(a, b, lo, hi, c) ==
    IF lo = hi
    THEN [limbs |-> <<(Limb(a, lo) + Limb(b, lo) + c) % Base>>,
          carry |-> (Limb(a, lo) + Limb(b, lo) + c) \div Base]
    ELSE AddUpper(a, b, Middle(lo, hi) + 1, hi, AddRange(a, b, lo, Middle(lo, hi), c))

AddUpper(a, b, lo, hi, low) == CarriedUp(low, AddRange(a, b, lo, hi, low.carry))

BigAdd(a, b) ==
    IF a = <<>> THEN b
    ELSE IF b = <<>> THEN a
    ELSE WithCarry(AddRange(a, b, 1, Max(Len(a), Len(b)), 0))

\* limbs lo..hi of a - b - c and the borrow out of them
RECURSIVE SubRange(_, _, _, _, _)
RECURSIVE SubUpper(_, _, _, _, _)
SubRange(a, b, lo, hi, c) ==
    IF lo = hi
    THEN [limbs |-> <<(a[lo] - Limb(b, lo) - c + Base) % Base>>,
          carry |-> IF a[lo] - Limb(b, lo) - c < 0 THEN 1 ELSE 0]
    ELSE SubUpper(a, b, Middle(lo, hi) + 1, hi, SubRange(a, b, lo, Middle(lo, hi), c))

SubUpper(a, b, lo, hi, low) == CarriedUp(low, SubRange(a, b, lo, hi, low.carry))

\* a - b, for a >= b
BigSub(a, b) == IF b = <<>> THEN a ELSE BigTrim(SubRange(a, b, 1, Len(a), 0).limbs)

DifferentLimbs(a, b) == {i \in 1..Len(a) : a[i] # b[i]}

\* -1, 0 or 1 as a is below, equal to or above b
BigCmp(a, b) ==
    IF Len(a) # Len(b) THEN (IF Len(a) < Len(b) THEN -1 ELSE 1)
    ELSE IF a = b THEN 0
    ELSE IF a[Maximum(DifferentLimbs(a, b))] < b[Maximum(DifferentLimbs(a, b))] THEN -1
    ELSE 1

BigBitLen(a) ==
    IF a = <<>> THEN 0 ELSE LimbBits * (Len(a) - 1) + BitLength(a[Len(a)])

\* a * 2^n
BigShl(a, n) ==
    IF a = <<>> THEN <<>>
    ELSE [i \in 1..(n \div LimbBits) |-> 0] \o BigMulAdd(a, Pow2(n % LimbBits), 0)

\* a \div 2^n
BigShr(a, n) ==
    IF n \div LimbBits >= Len(a) THEN <<>>
    ELSE BigDivSmall(SubSeq(a, (n \div LimbBits) + 1, Len(a)), Pow2(n % LimbBits)).q

\* bit i of a, bit 0 being the lowest
BigBit(a, i) == (Limb(a, (i \div LimbBits) + 1) \div Pow2(i % LimbBits)) % 2

\* the n lowest bits of a are all 0
BigLowZero(a, n) ==
    /\ \A j \in 1..(n \div LimbBits) : Limb(a, j) = 0
    /\ Limb(a, (n \div LimbBits) + 1) % Pow2(n % LimbBits) = 0

\* how many times 2 divides a, for a > 0
BigTrailingZeros(a) ==
    LimbBits * (Minimum(NonZeroLimbs(a)) - 1) + TrailingZeroBits(a[Minimum(NonZeroLimbs(a))])

TimesBase(a) == IF a = <<>> THEN <<>> ELSE <<0>> \o a

RECURSIVE MulFrom(_, _, _)
MulFrom(a, b, j) ==
    IF j > Len(b) THEN <<>>
    ELSE BigAdd(BigMulAdd(a, b[j], 0), TimesBase(MulFrom(a, b, j + 1)))

\* a * b
BigMul(a, b) == MulFrom(a, b, 1)

RECURSIVE Pow5(_)
Pow5(k) == IF k = 0 THEN 1 ELSE 5 * Pow5(k - 1)

\* a * 5^k, the k factors taken by halves down to 5^6, the largest power of
\* 5 below the base
RECURSIVE BigMulPow5(_, _)
BigMulPow5(a, k) ==
    IF k = 0 \/ a = <<>> THEN a
    ELSE IF k <= 6 THEN BigMulAdd(a, Pow5(k), 0)
    ELSE BigMulPow5(BigMulPow5(a, k \div 2), k - (k \div 2))

Divided(qr, inexact) == [q |-> qr.q, inexact |-> inexact \/ qr.r # 0]

\* qr.q \div 5^k, and whether the division (or one before it) left a
\* remainder; the k factors are taken by halves
RECURSIVE DivPow5(_, _)
DivPow5(qr, k) ==
    IF k = 0 \/ qr.q = <<>> THEN qr
    ELSE IF k <= 6 THEN Divided(BigDivSmall(qr.q, Pow5(k)), qr.inexact)
    ELSE DivPow5(DivPow5(qr, k \div 2), k - (k \div 2))

BigDivPow5(a, k, inexact) == DivPow5([q |-> a, inexact |-> inexact], k)

\* a \div 2^n, and whether bits were lost
BigShrSticky(a, n, inexact) ==
    [q |-> BigShr(a, n), inexact |-> inexact \/ ~BigLowZero(a, n)]

\* the quotient bits of two adjacent ranges of bits
JoinedBits(low, high, n) == [q |-> BigAdd(BigShl(high.q, n), low.q), r |-> low.r]

\* bit i of a brought down to the remainder r in a division by b
DivBit(x, b) == IF BigCmp(x, b) >= 0 THEN [q |-> <<1>>, r |-> BigSub(x, b)]
                ELSE [q |-> <<>>, r |-> x]

\* long division by b of bits lo..hi of a, r being the remainder above them
RECURSIVE DivBits(_, _, _, _, _)
RECURSIVE DivLowerBits(_, _, _, _, _)
DivBits(a, b, lo, hi, r) ==
    IF lo = hi THEN DivBit(BigMulAdd(r, 2, BigBit(a, lo)), b)
    ELSE DivLowerBits(a, b, lo, Middle(lo, hi), DivBits(a, b, Middle(lo, hi) + 1, hi, r))

DivLowerBits(a, b, lo, hi, high) ==
    JoinedBits(DivBits(a, b, lo, hi, high.r), high, hi - lo + 1)

Inexactness(qr) == [q |-> qr.q, inexact |-> qr.r # 0]
InexactnessBig(qr) == [q |-> qr.q, inexact |-> qr.r # <<>>]

\* a \div n for an integer n > 0, and whether the division left a remainder
BigDivInt(a, n) ==
    IF a = <<>> THEN [q |-> <<>>, inexact |-> FALSE]
    ELSE IF n <= Base THEN Inexactness(BigDivSmall(a, n))
    ELSE InexactnessBig(DivBits(a, BigOfInt(n), 0, BigBitLen(a) - 1, <<>>))

\* the decimal digits of a, as numbers, the most significant first
RECURSIVE BigDigits(_)
RECURSIVE DigitsStep(_)
BigDigits(a) == IF a = <<>> THEN <<>> ELSE DigitsStep(BigDivSmall(a, 10))
DigitsStep(qr) == Append(BigDigits(qr.q), qr.r)

\* the number written by the digits ds[1..i]
RECURSIVE BigOfDigits(_, _)
BigOfDigits(ds, i) ==
    IF i = 0 THEN <<>> ELSE BigMulAdd(BigOfDigits(ds, i - 1), 10, ds[i])

-----------------------------------------------------------------------------
(* Python floats: IEEE 754 doubles.  A finite double is (-1)^neg * m * 2^e   *)
(* with m odd (m = 0 and e = 0 for the two zeros); every operation rounds    *)
(* its exact result to the nearest double, ties to the even mantissa.        *)

MantissaBits == 53
\* the exponent of the smallest subnormal, 2^-1074
MinExponent == -1074
\* every finite double is below 2^1024
MaxBits == 1024

Finite(neg, m, e) == [class |-> "finite", neg |-> neg, m |-> m, e |-> e]

Zero == Finite(FALSE, <<>>, 0)
NegZero == Finite(TRUE, <<>>, 0)

\* float('nan'), float('inf'), float('-inf')
NaN == [class |-> "nan", neg |-> FALSE, m |-> <<>>, e |-> 0]
Inf == [class |-> "inf", neg |-> FALSE, m |-> <<>>, e |-> 0]
NegInf == [class |-> "inf", neg |-> TRUE, m |-> <<>>, e |-> 0]
Infinity(neg) == IF neg THEN NegInf ELSE Inf
IsSpecial(v) == v.class # "finite"
IsZero(v) == v.class = "finite" /\ v.m = <<>>

\* v < 0
IsNegative(v) == v.neg /\ v.class # "nan" /\ ~IsZero(v)

\* -v
Negated(v) == IF v.class = "nan" THEN v ELSE [v EXCEPT !.neg = ~v.neg]

\* m * 2^e as a double, for m below 2^53: the same value with m odd, an
\* infinity from 2^1024 on
Pack(neg, m, e) ==
    IF m = <<>> THEN Finite(neg, <<>>, 0)
    ELSE IF BigBitLen(m) + e > MaxBits THEN Infinity(neg)
    ELSE Finite(neg, BigShr(m, BigTrailingZeros(m)), e + BigTrailingZeros(m))

\* dropping the r lowest bits of n rounds up: the part dropped is above one
\* half, or is one half and the part kept is odd
RoundsUp(n, r, inexact) ==
    /\ BigBit(n, r - 1) = 1
    /\ (inexact \/ ~BigLowZero(n, r - 1) \/ BigBit(n, r) = 1)

\* n * 2^e with the r lowest bits of n rounded away
RoundAt(neg, n, e, inexact, r) ==
    IF r <= 0 THEN Pack(neg, n, e)
    ELSE IF RoundsUp(n, r, inexact) THEN Pack(neg, BigAdd(BigShr(n, r), <<1>>), e + r)
    ELSE Pack(neg, BigShr(n, r), e + r)

\* the double nearest to n * 2^e, or to a value just above it when inexact:
\* 53 bits are kept, fewer where the result is subnormal
RoundToDouble(neg, n, e, inexact) ==
    RoundAt(neg, n, e, inexact, Max(BigBitLen(n) - MantissaBits, MinExponent - e))

\* the double of a natural number n
FromInt(n) == RoundToDouble(FALSE, BigOfInt(n), 0, FALSE)

RoundQuotient(neg, qr, e) == RoundToDouble(neg, qr.q, e, qr.inexact)

\* the double nearest to ds * 10^e10, ds being decimal digits without a
\* leading zero: what float() makes of a decimal literal.  A value of 1e309
\* or more is an infinity and one below 1e-324 is zero, whatever its digits.
DoubleOfDecimal(neg, ds, e10) ==
    IF ds = <<>> THEN Finite(neg, <<>>, 0)
    ELSE IF e10 + Len(ds) - 1 > 308 THEN Infinity(neg)
    ELSE IF e10 + Len(ds) - 1 < -324 THEN Finite(neg, <<>>, 0)
    ELSE IF e10 >= 0
    THEN RoundToDouble(neg, BigMulPow5(BigOfDigits(ds, Len(ds)), e10), e10, FALSE)
    ELSE RoundQuotient(neg,
             BigDivPow5(BigShl(BigOfDigits(ds, Len(ds)), 64 - 3 * e10), -e10, FALSE),
             4 * e10 - 64)

\* v * k for a positive integer factor k
Times(v, k) ==
    IF IsSpecial(v) THEN v
    ELSE RoundToDouble(v.neg, BigMul(v.m, BigOfInt(k)), v.e, FALSE)

\* a + b for two integers a * 2^e and b * 2^e with their signs; equal and
\* opposite terms give +0.0
SignedSum(na, a, nb, b, e) ==
    IF na = nb THEN RoundToDouble(na, BigAdd(a, b), e, FALSE)
    ELSE IF BigCmp(a, b) = 0 THEN Zero
    ELSE IF BigCmp(a, b) > 0 THEN RoundToDouble(na, BigSub(a, b), e, FALSE)
    ELSE RoundToDouble(nb, BigSub(b, a), e, FALSE)

\* the sum of two finite doubles, both written at the exponent e
PlusAt(a, b, e) == SignedSum(a.neg, BigShl(a.m, a.e - e), b.neg, BigShl(b.m, b.e - e), e)

\* a + b on floats
Plus(a, b) ==
    IF a = NaN \/ b = NaN THEN NaN
    ELSE IF IsSpecial(a) THEN (IF IsSpecial(b) /\ b # a THEN NaN ELSE a)
    ELSE IF IsSpecial(b) THEN b
    ELSE PlusAt(a, b, Least(a.e, b.e))

\* a - b on floats
Minus(a, b) == Plus(a, Negated(b))

\* v / n for a positive integer n; v / 1 is v
DividedBy(v, n) ==
    IF IsSpecial(v) \/ n = 1 THEN v
    ELSE RoundQuotient(v.neg,
             BigDivInt(BigShl(v.m, 64 + BitLength(n)), n),
             v.e - 64 - BitLength(n))

-----------------------------------------------------------------------------
(* Float literals and repr *)

RECURSIVE DigitsVal(_)
DigitsVal(s) ==
    IF s = <<>> THEN 0
    ELSE DigitsVal(SubSeq(s, 1, Len(s) - 1)) * 10 + DigitVal(s[Len(s)])

RECURSIVE ToDigits(_)
ToDigits(n) ==
    IF n < 10 THEN <<DigitChar(n)>>
    ELSE ToDigits(n \div 10) \o <<DigitChar(n % 10)>>

\* s without its trailing zeros
StripZeros(s) == SubSeq(s, 1, LastOutside(s, {"0"}))

\* s without its leading zeros
StripLeadingZeros(s) == SubSeq(s, FirstOutside(s, {"0"}), Len(s))

AllDigits(s) == \A i \in 1..Len(s) : s[i] \in Digits

\* first index of a character of cs in s, 0 when there is none
FirstOf(s, cs) ==
    IF \E i \in 1..Len(s) : s[i] \in cs
    THEN CHOOSE i \in 1..Len(s) : s[i] \in cs /\ \A j \in 1..(i - 1) : s[j] \notin cs
    ELSE 0

ToLower(c) ==
    CASE c = "N" -> "n" [] c = "A" -> "a" [] c = "I" -> "i" [] c = "F" -> "f"
      [] c = "T" -> "t" [] c = "Y" -> "y" [] OTHER -> c

Lower(s) == [i \in 1..Len(s) |-> ToLower(s[i])]

HasSign(s) == s # <<>> /\ Head(s) \in {"+", "-"}
Unsigned(s) == IF HasSign(s) THEN Tail(s) ELSE s
SignOf(s) == IF s # <<>> /\ Head(s) = "-" THEN -1 ELSE 1

\* The pieces of a float literal: [sign] mantissa [e|E [sign] digits]
Mantissa(u) ==
    IF FirstOf(u, {"e", "E"}) = 0 THEN u
    ELSE SubSeq(u, 1, FirstOf(u, {"e", "E"}) - 1)

ExponentPart(u) ==
    IF FirstOf(u, {"e", "E"}) = 0 THEN <<>>
    ELSE SubSeq(u, FirstOf(u, {"e", "E"}) + 1, Len(u))

IntPart(man) ==
    IF FirstOf(man, {"."}) = 0 THEN man
    ELSE SubSeq(man, 1, FirstOf(man, {"."}) - 1)

FracPart(man) ==
    IF FirstOf(man, {"."}) = 0 THEN <<>>
    ELSE SubSeq(man, FirstOf(man, {"."}) + 1, Len(man))

PartsOf(s, u) ==
    [sign |-> SignOf(s), ip |-> IntPart(Mantissa(u)), fp |-> FracPart(Mantissa(u)),
     hasExp |-> FirstOf(u, {"e", "E"}) # 0, ex |-> ExponentPart(u)]

FloatParts(t) == PartsOf(Literal(t), Unsigned(Literal(t)))

\* [sign] nan | inf | infinity, in any case
IsNanText(t) == Lower(Unsigned(Literal(t))) = <<"n", "a", "n">>
IsInfText(t) ==
    Lower(Unsigned(Literal(t))) \in
        {<<"i", "n", "f">>, <<"i", "n", "f", "i", "n", "i", "t", "y">>}

\* the pieces form a decimal literal
PartsOk(p) ==
    /\ AllDigits(p.ip)
    /\ AllDigits(p.fp)
    /\ Len(p.ip) + Len(p.fp) >= 1
    /\ p.hasExp => (Unsigned(p.ex) # <<>> /\ AllDigits(Unsigned(p.ex)))

\* float(t) succeeds
FloatOk(t) == IsNanText(t) \/ IsInfText(t) \/ PartsOk(FloatParts(t))

\* the digits as numbers
DigitValues(ds) == [i \in 1..Len(ds) |-> DigitVal(ds[i])]

\* the digits between the leading and the trailing zeros
Significant(ds) == StripLeadingZeros(StripZeros(ds))

\* sign * ds * 10^e as a double, the digits read without the zeros around
\* them
DecimalOf(sign, ds, e) ==
    DoubleOfDecimal(sign < 0, DigitValues(Significant(ds)),
                    e + Len(ds) - Len(StripZeros(ds)))

\* the number an exponent's digits write; one of ten digits or more is
\* beyond the range of a double whatever the mantissa
ExponentVal(ds) ==
    IF Len(StripLeadingZeros(ds)) > 9 THEN 999999999
    ELSE DigitsVal(StripLeadingZeros(ds))

ExponentOf(p) ==
    IF p.hasExp THEN SignOf(p.ex) * ExponentVal(Unsigned(p.ex)) ELSE 0

PartsVal(p) == DecimalOf(p.sign, p.ip \o p.fp, ExponentOf(p) - Len(p.fp))

\* float(t), where it succeeds
FloatVal(t) ==
    IF IsNanText(t) THEN NaN
    ELSE IF IsInfText(t) THEN Infinity(SignOf(Literal(t)) < 0)
    ELSE PartsVal(FloatParts(t))

RECURSIVE Zeros(_)
Zeros(n) == IF n <= 0 THEN <<>> ELSE <<"0">> \o Zeros(n - 1)

Abs(n) == IF n < 0 THEN -n ELSE n

\* the exponent of scientific notation: a sign and at least two digits
ExponentText(ex) ==
    <<"e">> \o (IF ex < 0 THEN <<"-">> ELSE <<"+">>)
            \o (IF Abs(ex) < 10 THEN <<"0">> ELSE <<>>) \o ToDigits(Abs(ex))

\* the digits ds with the decimal point after the first decpt of them
Layout(ds, decpt) ==
    IF decpt > -4 /\ decpt <= 16
    THEN IF decpt <= 0
         THEN <<"0", ".">> \o Zeros(-decpt) \o ds
         ELSE IF decpt >= Len(ds)
         THEN ds \o Zeros(decpt - Len(ds)) \o <<".", "0">>
         ELSE SubSeq(ds, 1, decpt) \o <<".">> \o SubSeq(ds, decpt + 1, Len(ds))
    ELSE <<ds[1]>>
           \o (IF Len(ds) > 1 THEN <<".">> \o SubSeq(ds, 2, Len(ds)) ELSE <<>>)
           \o ExponentText(decpt - 1)

LayoutDigits(ds, e) == Layout(ds, Len(ds) + e)

DigitChars(ds) == [i \in 1..Len(ds) |-> DigitChar(ds[i])]

\* a lower bound of the decimal exponent of a number of so many bits
DecimalExponent(bits) == ((bits - 1) * 30103) \div 100000

\* the integer part of m * 2^e * 10^p, and whether there is a fraction
ScaledUp(m, e, p) ==
    IF e + p >= 0 THEN [q |-> BigShl(BigMulPow5(m, p), e + p), inexact |-> FALSE]
    ELSE BigShrSticky(BigMulPow5(m, p), -(e + p), FALSE)

Shifted(qr, n) == BigShrSticky(qr.q, n, qr.inexact)

ScaledDown(m, e, p) ==
    IF e + p >= 0 THEN BigDivPow5(BigShl(m, e + p), -p, FALSE)
    ELSE Shifted(BigDivPow5(m, -p, FALSE), -(e + p))

Scaled(m, e, p) == IF p >= 0 THEN ScaledUp(m, e, p) ELSE ScaledDown(m, e, p)

\* the power of ten that gives |v| nineteen or twenty digits before the point
ScaleOf(v) == 18 - DecimalExponent(BigBitLen(v.m) + v.e)

\* ds * 10^e10, a decimal repr may write
Candidate(ds, e10) == [digits |-> ds, e10 |-> e10]

\* the digits of ds + 1
RECURSIVE Incremented(_)
Incremented(ds) ==
    IF ds = <<>> THEN <<1>>
    ELSE IF ds[Len(ds)] < 9 THEN [ds EXCEPT ![Len(ds)] = ds[Len(ds)] + 1]
    ELSE Append(Incremented(SubSeq(ds, 1, Len(ds) - 1)), 0)

\* the two decimals of n digits around ds * 10^e10
Below(ds, e10, n) == Candidate(SubSeq(ds, 1, n), e10 + Len(ds) - n)
Above(ds, e10, n) == Candidate(Incremented(SubSeq(ds, 1, n)), e10 + Len(ds) - n)

\* float() of the decimal gives back v
ReadsAs(c, v) == DoubleOfDecimal(v.neg, c.digits, c.e10) = v

\* the shortest decimal of n digits or more that float() reads as v, the
\* nearest to v among those of its length; ds are the leading digits of v,
\* eighteen or more unless v has fewer
RECURSIVE Shortest(_, _, _, _)
RECURSIVE FirstReadAs(_, _, _, _, _, _)
Shortest(v, ds, e10, n) ==
    IF n >= Len(ds) THEN Candidate(ds, e10)
    ELSE IF ds[n + 1] >= 5
    THEN FirstReadAs(v, Above(ds, e10, n), Below(ds, e10, n), ds, e10, n)
    ELSE FirstReadAs(v, Below(ds, e10, n), Above(ds, e10, n), ds, e10, n)

FirstReadAs(v, nearer, other, ds, e10, n) ==
    IF ReadsAs(nearer, v) THEN nearer
    ELSE IF ReadsAs(other, v) THEN other
    ELSE Shortest(v, ds, e10, n + 1)

\* ds without its trailing 0 digits
Trimmed(ds) == SubSeq(ds, 1, LastOutside(ds, {0}))

\* the digits of a scaled value and their power of ten; all the digits of
\* the value when it has no more
DigitsOf(ds, inexact, p) ==
    IF inexact THEN Candidate(ds, -p)
    ELSE Candidate(Trimmed(ds), Len(ds) - Len(Trimmed(ds)) - p)

ShortestFrom(v, c) == Shortest(v, c.digits, c.e10, 1)

ScaledDigits(qr, p) == DigitsOf(BigDigits(qr.q), qr.inexact, p)

\* the decimal repr writes for a finite v other than zero
ShortestOf(v) == ShortestFrom(v, ScaledDigits(Scaled(v.m, v.e, ScaleOf(v)), ScaleOf(v)))

LayoutOf(c) == Layout(DigitChars(Trimmed(c.digits)), Len(c.digits) + c.e10)

\* repr of a float: the shortest digits that read back as the float,
\* positional while the decimal point lies within -4 < decpt <= 16,
\* scientific otherwise
FloatRepr(v) ==
    IF v = NaN THEN <<"n", "a", "n">>
    ELSE IF v = Inf THEN <<"i", "n", "f">>
    ELSE IF v = NegInf THEN <<"-", "i", "n", "f">>
    ELSE (IF v.neg THEN <<"-">> ELSE <<>>)
           \o (IF IsZero(v) THEN <<"0", ".", "0">>
               ELSE LayoutOf(ShortestOf(v)))

\* repr of an int
IntRepr(v) ==
    IF IsZero(v) THEN <<"0">>
    ELSE (IF v.neg THEN <<"-">> ELSE <<>>) \o DigitChars(BigDigits(BigShl(v.m, v.e)))

-----------------------------------------------------------------------------
(* Values passed to and returned by the normalizer *)

\* a missing cell is None or, as pandas reads it, the float NaN
None == [kind |-> "None", text |-> <<>>, num |-> Zero]
Text(s) == [kind |-> "text", text |-> s, num |-> Zero]
Number(kind, v) == [kind |-> kind, text |-> <<>>, num |-> v]

\* outcome of a call: a returned int or float, or an exception
RetInt(v) == [raised |-> FALSE, kind |-> "int", num |-> v]
RetFloat(v) == [raised |-> FALSE, kind |-> "float", num |-> v]
Raised == [raised |-> TRUE, kind |-> "none", num |-> Zero]
NoResult == [raised |-> FALSE, kind |-> "none", num |-> Zero]

NotANumber == Number("float", NaN)

\* pd.isna(x)
isna(x) == x.kind = "None" \/ (x.kind = "float" /\ x.num = NaN)

\* x == ''
IsEmptyStr(x) == x.kind = "text" /\ x.text = <<>>

\* str(x)
str(x) ==
    CASE x.kind = "text" -> x.text
      [] x.kind = "None" -> <<"N", "o", "n", "e">>
      [] x.kind = "int" -> IntRepr(x.num)
      [] x.kind = "float" -> FloatRepr(x.num)

\* float(t) * k: the conversion raises before the product is taken
FloatTimes(t, k) ==
    IF FloatOk(t) THEN RetFloat(Times(FloatVal(t), k)) ELSE Raised

\* float(t) * k * l, the two products taken one after the other
FloatTimesTimes(t, k, l) ==
    IF FloatOk(t) THEN RetFloat(Times(Times(FloatVal(t), k), l)) ELSE Raised

-----------------------------------------------------------------------------
(* parse_time_to_microseconds *)

Comma == <<",">>
Quote == <<"\"">>
Ms == <<"m", "s">>
Mus == <<"μ", "s">>
S == <<"s">>
SpMs == <<" ", "m", "s">>
SpMus == <<" ", "μ", "s">>
SpS == <<" ", "s">>

CleanCommasOnly(s) == Replace(s, Comma, <<>>)

\* .replace(',', '').replace('"', '')
Clean(s) == Replace(Replace(s, Comma, <<>>), Quote, <<>>)

TimeUnitSecondsFirst(t) ==
    IF Contains(t, S) THEN "s"
    ELSE IF Contains(t, Ms) THEN "ms"
    ELSE IF Contains(t, Mus) THEN "μs"
    ELSE "none"

\* the branch of the if/elif chain that is taken
TimeUnit(t) ==
    IF Contains(t, Ms) THEN "ms"
    ELSE IF Contains(t, Mus) THEN "μs"
    ELSE IF Contains(t, S) THEN "s"
    ELSE "none"

AlwaysZero(t) == RetInt(Zero)

FloatUnguarded(t) == IF FloatOk(t) THEN RetFloat(FloatVal(t)) ELSE Raised

\* try: return float(t)  except: return 0
FloatOrZero(t) == IF FloatOk(t) THEN RetFloat(FloatVal(t)) ELSE RetInt(Zero)

OnlyEmptyChecked(x) == IsEmptyStr(x)

\* the guard of the first return
AbsentOrEmpty(x) == isna(x) \/ IsEmptyStr(x)

\* which return statement of parse_time_to_microseconds runs
TimeBranch(x) == IF AbsentOrEmpty(x) THEN "early" ELSE TimeUnit(Clean(str(x)))

\* the return statement of that branch, on the cleaned text
TimeReturn(branch, time_str) ==
    CASE branch = "early" -> RetInt(Zero)
      [] branch = "ms" -> FloatTimes(Replace(time_str, SpMs, <<>>), 1000)
      [] branch = "μs" -> FloatTimes(Replace(time_str, SpMus, <<>>), 1)
      [] branch = "s" -> FloatTimes(Replace(time_str, SpS, <<>>), 1000000)
      [] OTHER -> FloatOrZero(time_str)

parse_time_to_microseconds(x) == TimeReturn(TimeBranch(x), Clean(str(x)))

-----------------------------------------------------------------------------
(* parse_memory *)

KB == <<"K", "B">>
MB == <<"M", "B">>
GB == <<"G", "B">>
SpKB == <<" ", "K", "B">>
SpMB == <<" ", "M", "B">>
SpGB == <<" ", "G", "B">>

MemoryUnitGigaFirst(t) ==
    IF Contains(t, GB) THEN "GB"
    ELSE IF Contains(t, MB) THEN "MB"
    ELSE IF Contains(t, KB) THEN "KB"
    ELSE "none"

\* the branch of the if/elif chain that is taken
MemoryUnit(t) ==
    IF Contains(t, KB) THEN "KB"
    ELSE IF Contains(t, MB) THEN "MB"
    ELSE IF Contains(t, GB) THEN "GB"
    ELSE "none"

\* which return statement of parse_memory runs
MemoryBranch(x) == IF AbsentOrEmpty(x) THEN "early" ELSE MemoryUnit(Clean(str(x)))

\* the return statement of that branch, on the cleaned text
MemoryReturn(branch, memory_str) ==
    CASE branch = "early" -> RetInt(Zero)
      [] branch = "KB" -> FloatTimes(Replace(memory_str, SpKB, <<>>), 1)
      [] branch = "MB" -> FloatTimes(Replace(memory_str, SpMB, <<>>), 1024)
      [] branch = "GB" -> FloatTimesTimes(Replace(memory_str, SpGB, <<>>), 1024, 1024)
      [] OTHER -> FloatOrZero(memory_str)

parse_memory(x) == MemoryReturn(MemoryBranch(x), Clean(str(x)))

-----------------------------------------------------------------------------
(* Arguments the normalizer is exercised on *)

Common == {<<"0">>, <<"1">>, <<".">>, <<"-">>, Comma, Quote, <<" ">>}
TimeVocabulary == Common \cup {Ms, Mus, S}
MemoryVocabulary == Common \cup {KB, MB, GB}
Vocabulary(f) == IF f = "time" THEN TimeVocabulary ELSE MemoryVocabulary

\* the examples of the specification's section 8
Examples ==
    { <<"1", ",", "2", "3", "4", " ", "m", "s">>,
      <<"1", "2", "3", "4", " ", "m", "s">>,
      <<"1", "5", "0", " ", "μ", "s">>,
      <<"2", " ", "M", "B">>,
      <<"g", "a", "r", "b", "a", "g", "e">> }

\* texts float() reads as NaN and the infinities, and numbers whose repr is
\* in scientific notation
SpecialTexts ==
    { <<"n", "a", "n">>, <<"i", "n", "f">>, <<"-", "i", "n", "f">>,
      <<".", "0", "0", "0", "0", "1", "5">>,
      <<"1", "e", "2", "2">> }

\* numbers written with white space other than the space, with a grouping
\* underscore and with digits of other scripts
ForeignTexts ==
    { <<"\t", "1", " ", "m", "s">>, <<"1", "\n">>,
      <<"1", "_", "0", " ", "m", "s">>, <<"1", "_", "_", "0">>,
      <<"۱", "۲", " ", "M", "B">>, <<"U+0663", " ", "m", "s">> }

\* numbers beyond the range or the precision of a double, products that
\* are rounded or leave the range, and the negative zero
RoundedTexts ==
    { <<"1", "e", "4", "0", "0">>, <<"-", "1", "e", "4", "0", "0">>,
      <<"1", "e", "-", "4", "0", "0">>,
      <<"1", ".", "0", "0", "1", " ", "s">>, <<"1", "e", "3", "0", "8", " ", "s">>,
      <<"1", "e", "3", "0", "8", " ", "G", "B">>,
      <<"1", "e", "-", "3", "2", "0", " ", "m", "s">>,
      <<"9", "0", "0", "7", "1", "9", "9", "2", "5", "4", "7", "4", "0", "9", "9", "3">>,
      <<"-", "0">> }

EdgeTexts == SpecialTexts \cup ForeignTexts \cup RoundedTexts

WholeArguments ==
    {None, NotANumber} \cup {Text(s) : s \in Examples \cup EdgeTexts}

Apply(f, x) == IF f = "time" THEN parse_time_to_microseconds(x) ELSE parse_memory(x)

-----------------------------------------------------------------------------
(* The benchmark tables and the comparison tables built from them *)

TableNames ==
    <<"ef_antes", "adonet_antes", "dapper_antes",
      "ef_despues", "adonet_despues", "dapper_despues">>

Technologies == <<"Entity Framework", "ADO.NET", "Dapper">>

\* operations, the list prepare_crud_comparison_data goes through
operations ==
    << <<"C", "r", "e", "a", "t", "e", "C", "u", "s", "t", "o", "m", "e", "r">>,
       <<"R", "e", "a", "d", "C", "u", "s", "t", "o", "m", "e", "r">>,
       <<"U", "p", "d", "a", "t", "e", "C", "u", "s", "t", "o", "m", "e", "r">>,
       <<"D", "e", "l", "e", "t", "e", "C", "u", "s", "t", "o", "m", "e", "r">>,
       <<"C", "r", "e", "a", "t", "e", "P", "r", "o", "d", "u", "c", "t">>,
       <<"R", "e", "a", "d", "P", "r", "o", "d", "u", "c", "t">>,
       <<"U", "p", "d", "a", "t", "e", "P", "r", "o", "d", "u", "c", "t">>,
       <<"D", "e", "l", "e", "t", "e", "P", "r", "o", "d", "u", "c", "t">>,
       <<"C", "r", "e", "a", "t", "e", "O", "r", "d", "e", "r">>,
       <<"R", "e", "a", "d", "O", "r", "d", "e", "r">>,
       <<"U", "p", "d", "a", "t", "e", "O", "r", "d", "e", "r">>,
       <<"D", "e", "l", "e", "t", "e", "O", "r", "d", "e", "r">>,
       <<"C", "r", "e", "a", "t", "e", "O", "r", "d", "e", "r", "D", "e", "t", "a", "i", "l">>,
       <<"R", "e", "a", "d", "O", "r", "d", "e", "r", "D", "e", "t", "a", "i", "l">>,
       <<"U", "p", "d", "a", "t", "e", "O", "r", "d", "e", "r", "D", "e", "t", "a", "i", "l">>,
       <<"D", "e", "l", "e", "t", "e", "O", "r", "d", "e", "r", "D", "e", "t", "a", "i", "l">> >>

\* the sixteen names as a set
ListedNames == {operations[i] : i \in 1..Len(operations)}

EmptyData == [t \in {TableNames[i] : i \in 1..6} |-> <<>>]

\* a table has no row, and so no comparison table, before it is built
NotPrepared == [raised |-> FALSE, rows |-> <<>>]
PrepareRaised == [raised |-> TRUE, rows |-> <<>>]
Prepared(rows) == [raised |-> FALSE, rows |-> rows]

\* the values a rule gives, each computed once and kept, as apply() returns
\* the column it has computed
Computed(values) == <<>> \o values

\* df['Mean'].apply(parse_time_to_microseconds) and
\* df['Allocated'].apply(parse_memory), row by row
Applied(df) ==
    Computed([i \in 1..Len(df) |->
                 [time |-> parse_time_to_microseconds(df[i].Mean),
                  memory |-> parse_memory(df[i].Allocated)]])

\* the two apply calls on each of the six tables
AppliedAll(d) == Computed([i \in 1..6 |-> Applied(d[TableNames[i]])])

\* one of the apply calls on a table raises
ApplyRaises(cols) ==
    \E i \in 1..Len(cols) : cols[i].time.raised \/ cols[i].memory.raised

\* the copy of a table with the columns Mean_μs and Allocated_KB added
WithCanonicalColumns(df, cols) ==
    [i \in 1..Len(df) |->
        [Method |-> df[i].Method, Mean |-> df[i].Mean, Allocated |-> df[i].Allocated,
         Mean_us |-> cols[i].time.num, Allocated_KB |-> cols[i].memory.num]]

\* df[df['Method'] == op]
RowsOf(df, op) == SelectSeq(df, LAMBDA r : r.Method = op)

ILocLast(rows) == rows[Len(rows)]

\* rows.iloc[0]
ILocFirst(rows) == rows[1]

\* a variant that appends a blank record when the selection is empty
RecordEvenIfNone(rows, op, tech) ==
    IF rows = <<>>
    THEN << [Operation |-> op, Technology |-> tech, Time |-> Zero, Memory |-> Zero] >>
    ELSE << [Operation |-> op, Technology |-> tech,
             Time |-> ILocFirst(rows).Mean_us,
             Memory |-> ILocFirst(rows).Allocated_KB] >>

\* the record appended when the selection "rows" is not empty
RecordIfAny(rows, op, tech) ==
    IF rows = <<>> THEN <<>>
    ELSE << [Operation |-> op, Technology |-> tech,
             Time |-> ILocFirst(rows).Mean_us,
             Memory |-> ILocFirst(rows).Allocated_KB] >>

\* the record appended for one technology and one operation, if its table
\* has a row for the operation
CrudRecord(df, op, tech) == RecordIfAny(RowsOf(df, op), op, tech)

\* the body of "for op in operations", from the i-th operation on
RECURSIVE CrudRecordsFrom(_, _, _, _)
CrudRecordsFrom(i, ef, adonet, dapper) ==
    IF i > Len(operations) THEN <<>>
    ELSE CrudRecord(ef, operations[i], "Entity Framework")
           \o CrudRecord(adonet, operations[i], "ADO.NET")
           \o CrudRecord(dapper, operations[i], "Dapper")
           \o CrudRecordsFrom(i + 1, ef, adonet, dapper)

\* the three before-period tables with their canonical columns, looped over
AllCrudRecords(d, cols) ==
    CrudRecordsFrom(1, WithCanonicalColumns(d.ef_antes, cols[1]),
                    WithCanonicalColumns(d.adonet_antes, cols[2]),
                    WithCanonicalColumns(d.dapper_antes, cols[3]))

PrepareCrudWith(d, cols) ==
    IF \E i \in 1..3 : ApplyRaises(cols[i])
    THEN PrepareRaised
    ELSE Prepared(AllCrudRecords(d, cols))

prepare_crud_comparison_data(d) == PrepareCrudWith(d, AppliedAll(d))

TagEF == <<"E", "F", ":", " ">>
TagAdoNet == <<"A", "D", "O", ".", "N", "E", "T", ":", " ">>
TagDapper == <<"D", "a", "p", "p", "e", "r", ":", " ">>
Apostrophe == <<"'">>

\* row['Method'].replace(tag, '').replace("'", '')
method_clean(method, tag) == Replace(Replace(method, tag, <<>>), Apostrophe, <<>>)

\* the records one "for _, row in df.iterrows()" loop appends
QueryRecords(df, tag, tech) ==
    [i \in 1..Len(df) |->
        [Operation |-> method_clean(df[i].Method, tag), Technology |-> tech,
         Period |-> "Después",
         Time |-> df[i].Mean_us, Memory |-> df[i].Allocated_KB]]

\* the records of the three loops over the after-period tables
AllQueryRecords(d, cols) ==
    QueryRecords(WithCanonicalColumns(d.ef_despues, cols[4]), TagEF, "Entity Framework")
      \o QueryRecords(WithCanonicalColumns(d.adonet_despues, cols[5]), TagAdoNet, "ADO.NET")
      \o QueryRecords(WithCanonicalColumns(d.dapper_despues, cols[6]), TagDapper, "Dapper")

PrepareQueryWith(d, cols) ==
    IF \E i \in 4..6 : ApplyRaises(cols[i])
    THEN PrepareRaised
    ELSE Prepared(AllQueryRecords(d, cols))

prepare_query_comparison_data(d) == PrepareQueryWith(d, AppliedAll(d))

\* operations, the list prepare_antes_despues_comparison_data goes through:
\* the routine has a list of its own
operations_antes_despues ==
    << <<"C", "r", "e", "a", "t", "e", "C", "u", "s", "t", "o", "m", "e", "r">>,
       <<"R", "e", "a", "d", "C", "u", "s", "t", "o", "m", "e", "r">>,
       <<"U", "p", "d", "a", "t", "e", "C", "u", "s", "t", "o", "m", "e", "r">>,
       <<"D", "e", "l", "e", "t", "e", "C", "u", "s", "t", "o", "m", "e", "r">>,
       <<"C", "r", "e", "a", "t", "e", "P", "r", "o", "d", "u", "c", "t">>,
       <<"R", "e", "a", "d", "P", "r", "o", "d", "u", "c", "t">>,
       <<"U", "p", "d", "a", "t", "e", "P", "r", "o", "d", "u", "c", "t">>,
       <<"D", "e", "l", "e", "t", "e", "P", "r", "o", "d", "u", "c", "t">>,
       <<"C", "r", "e", "a", "t", "e", "O", "r", "d", "e", "r">>,
       <<"R", "e", "a", "d", "O", "r", "d", "e", "r">>,
       <<"U", "p", "d", "a", "t", "e", "O", "r", "d", "e", "r">>,
       <<"D", "e", "l", "e", "t", "e", "O", "r", "d", "e", "r">>,
       <<"C", "r", "e", "a", "t", "e", "O", "r", "d", "e", "r", "D", "e", "t", "a", "i", "l">>,
       <<"R", "e", "a", "d", "O", "r", "d", "e", "r", "D", "e", "t", "a", "i", "l">>,
       <<"U", "p", "d", "a", "t", "e", "O", "r", "d", "e", "r", "D", "e", "t", "a", "i", "l">>,
       <<"D", "e", "l", "e", "t", "e", "O", "r", "d", "e", "r", "D", "e", "t", "a", "i", "l">> >>

\* a variant that takes the last row of the selection
AntesRecordOfLastRow(rows, op, tech) ==
    IF rows = <<>> THEN <<>>
    ELSE << [Operation |-> op, Technology |-> tech, Period |-> "Antes",
             Time |-> ILocLast(rows).Mean_us,
             Memory |-> ILocLast(rows).Allocated_KB,
             Category |-> "CRUD"] >>

\* the record with 'Period' and 'Category' appended when the selection
\* "rows" is not empty
AntesRecordIfAny(rows, op, tech) ==
    IF rows = <<>> THEN <<>>
    ELSE << [Operation |-> op, Technology |-> tech, Period |-> "Antes",
             Time |-> ILocFirst(rows).Mean_us,
             Memory |-> ILocFirst(rows).Allocated_KB,
             Category |-> "CRUD"] >>

\* the body of the routine's own "for op in operations", from the i-th
\* operation on
RECURSIVE AntesRecordsFrom(_, _, _, _)
AntesRecordsFrom(i, ef, adonet, dapper) ==
    IF i > Len(operations_antes_despues) THEN <<>>
    ELSE AntesRecordIfAny(RowsOf(ef, operations_antes_despues[i]),
                          operations_antes_despues[i], "Entity Framework")
           \o AntesRecordIfAny(RowsOf(adonet, operations_antes_despues[i]),
                               operations_antes_despues[i], "ADO.NET")
           \o AntesRecordIfAny(RowsOf(dapper, operations_antes_despues[i]),
                               operations_antes_despues[i], "Dapper")
           \o AntesRecordsFrom(i + 1, ef, adonet, dapper)

\* the records one of the routine's own "for _, row in df.iterrows()" loops
\* appends, the Method cleaned by the two replace calls of that loop
DespuesRecords(df, tag, tech) ==
    [i \in 1..Len(df) |->
        [Operation |-> Replace(Replace(df[i].Method, tag, <<>>), <<"'">>, <<>>),
         Technology |-> tech, Period |-> "Después",
         Time |-> df[i].Mean_us, Memory |-> df[i].Allocated_KB,
         Category |-> "Query"]]

\* comparison_data once the loop over the operations and the three loops
\* over the after-period tables have appended to it
AllRecords(d, cols) ==
    AntesRecordsFrom(1, WithCanonicalColumns(d.ef_antes, cols[1]),
                     WithCanonicalColumns(d.adonet_antes, cols[2]),
                     WithCanonicalColumns(d.dapper_antes, cols[3]))
      \o DespuesRecords(WithCanonicalColumns(d.ef_despues, cols[4]),
                        <<"E", "F", ":", " ">>, "Entity Framework")
      \o DespuesRecords(WithCanonicalColumns(d.adonet_despues, cols[5]),
                        <<"A", "D", "O", ".", "N", "E", "T", ":", " ">>, "ADO.NET")
      \o DespuesRecords(WithCanonicalColumns(d.dapper_despues, cols[6]),
                        <<"D", "a", "p", "p", "e", "r", ":", " ">>, "Dapper")

PrepareAllWith(d, cols) ==
    IF \E i \in 1..6 : ApplyRaises(cols[i])
    THEN PrepareRaised
    ELSE Prepared(AllRecords(d, cols))

prepare_antes_despues_comparison_data(d) == PrepareAllWith(d, AppliedAll(d))

-----------------------------------------------------------------------------
(* Aggregation of a comparison table: groupby and mean *)

\* the values from the lo-th to the hi-th added to acc one after the other,
\* the range being gone through by halves; a sum that is NaN stays NaN
RECURSIVE SumFrom(_, _, _, _)
SumFrom(values, lo, hi, acc) ==
    IF lo > hi \/ acc = NaN THEN acc
    ELSE IF lo = hi THEN Plus(acc, values[lo])
    ELSE SumFrom(values, Middle(lo, hi) + 1, hi,
                 SumFrom(values, lo, Middle(lo, hi), acc))

\* every eighth value from the i-th on added to acc
RECURSIVE LaneSum(_, _, _, _)
LaneSum(a, i, last, acc) ==
    IF i > last THEN acc ELSE LaneSum(a, i + 8, last, Plus(acc, a[i]))

\* one of the eight partial sums of the n values from a[lo] on, n - n % 8 of
\* them taken
Lane(a, lo, n, j) == LaneSum(a, lo + j + 8, lo + n - (n % 8) - 1, a[lo + j])

EightLanes(a, lo, n) ==
    Plus(Plus(Plus(Lane(a, lo, n, 0), Lane(a, lo, n, 1)),
              Plus(Lane(a, lo, n, 2), Lane(a, lo, n, 3))),
         Plus(Plus(Lane(a, lo, n, 4), Lane(a, lo, n, 5)),
              Plus(Lane(a, lo, n, 6), Lane(a, lo, n, 7))))

\* half of n, a multiple of 8
HalfOf(n) == (n \div 2) - ((n \div 2) % 8)

\* numpy's sum of the n values from a[lo] on: left to right below 8 values,
\* eight partial sums up to 128, two halves beyond
RECURSIVE PairwiseSum(_, _, _)
PairwiseSum(a, lo, n) ==
    IF n < 8 THEN SumFrom(a, lo, lo + n - 1, Zero)
    ELSE IF n <= 128
    THEN SumFrom(a, lo + n - (n % 8), lo + n - 1, EightLanes(a, lo, n))
    ELSE Plus(PairwiseSum(a, lo, HalfOf(n)),
              PairwiseSum(a, lo + HalfOf(n), n - HalfOf(n)))

\* the values that are not NaN
NotNaN(values) == SelectSeq(values, LAMBDA v : v # NaN)

\* the values with 0.0 in the place of NaN
NaNAsZero(values) == [i \in 1..Len(values) |-> IF values[i] = NaN THEN Zero ELSE values[i]]

\* Series.mean(): the numpy sum of the values, a NaN counted as 0.0, over the
\* number of values that are not NaN; the mean of no value is NaN
mean(values) ==
    IF NotNaN(values) = <<>> THEN NaN
    ELSE DividedBy(Plus(Zero, PairwiseSum(NaNAsZero(values), 1, Len(values))),
                   Len(NotNaN(values)))

\* the error carried to the next term; one that is NaN is dropped
Compensation(c) == IF c = NaN THEN Zero ELSE c

\* a compensated sum and the error it carries
Compensated(sumx, comp) == [sumx |-> sumx, comp |-> comp]

KahanTotal(k, y, t) == Compensated(t, Compensation(Minus(Minus(t, k.sumx), y)))

KahanTerm(k, y) == KahanTotal(k, y, Plus(k.sumx, y))

\* one value added to a compensated sum; NaN is skipped
KahanAdd(k, val) == IF val = NaN THEN k ELSE KahanTerm(k, Minus(val, k.comp))

\* the values from the lo-th to the hi-th added to the compensated sum k,
\* the range being gone through by halves; a sum that is NaN stays NaN, and
\* carries no error
RECURSIVE KahanFrom(_, _, _, _)
KahanFrom(values, lo, hi, k) ==
    IF k.sumx = NaN THEN k
    ELSE IF lo = hi THEN KahanAdd(k, values[lo])
    ELSE KahanFrom(values, Middle(lo, hi) + 1, hi,
                   KahanFrom(values, lo, Middle(lo, hi), k))

\* the mean of one group of a groupby: NaN is skipped, and the mean of no
\* value is NaN
GroupMean(values) ==
    IF NotNaN(values) = <<>> THEN NaN
    ELSE DividedBy(KahanFrom(values, 1, Len(values), Compensated(Zero, Zero)).sumx,
                   Len(NotNaN(values)))

TimeColumn(df) == [i \in 1..Len(df) |-> df[i].Time]
MemoryColumn(df) == [i \in 1..Len(df) |-> df[i].Memory]

\* df[df['Technology'] == tech]
OfTechnology(df, tech) == SelectSeq(df, LAMBDA r : r.Technology = tech)

\* df[df['Period'] == period]
OfPeriod(df, period) == SelectSeq(df, LAMBDA r : r.Period = period)

\* groupby sorts its keys
SortedTechnologies == <<"ADO.NET", "Dapper", "Entity Framework">>
SortedOperationTypes == <<"Create", "Delete", "Query", "Read", "Update">>

\* one row of groupby(...).agg({'Time_μs': 'mean', 'Memory_KB': 'mean'})
AverageRow(key, group) ==
    [key |-> key, Time |-> GroupMean(TimeColumn(group)),
     Memory |-> GroupMean(MemoryColumn(group))]

\* the technologies that have records in df, in the order groupby gives
TechnologiesIn(df) ==
    SelectSeq(SortedTechnologies, LAMBDA t : OfTechnology(df, t) # <<>>)

\* df.groupby('Technology').agg(...).reset_index(): a row per technology
\* that has records
GroupByTechnology(df) ==
    [i \in 1..Len(TechnologiesIn(df)) |->
        AverageRow(<<TechnologiesIn(df)[i]>>, OfTechnology(df, TechnologiesIn(df)[i]))]

Create == <<"C", "r", "e", "a", "t", "e">>
Read == <<"R", "e", "a", "d">>
Update == <<"U", "p", "d", "a", "t", "e">>
Delete == <<"D", "e", "l", "e", "t", "e">>

\* a variant without the test for 'Delete'
OperationTypeNoDelete(x) ==
    IF Contains(x, Create) THEN "Create"
    ELSE IF Contains(x, Read) THEN "Read"
    ELSE IF Contains(x, Update) THEN "Update"
    ELSE "Query"

\* the lambda of create_operation_type_analysis
OperationType(x) ==
    IF Contains(x, Create) THEN "Create"
    ELSE IF Contains(x, Read) THEN "Read"
    ELSE IF Contains(x, Update) THEN "Update"
    ELSE IF Contains(x, Delete) THEN "Delete"
    ELSE "Query"

\* a table with the column OperationType added
WithOperationType(df) ==
    [i \in 1..Len(df) |->
        [Operation |-> df[i].Operation, Technology |-> df[i].Technology,
         Time |-> df[i].Time, Memory |-> df[i].Memory,
         OperationType |-> OperationType(df[i].Operation)]]

\* a variant without the copy: the column is added to the caller's table
TypeColumnAddedInPlace(df) == WithOperationType(df)

\* df_copy = df.copy(): the column is added to the copy, and the table the
\* caller handed in is what it was
CallerTableAfterTypeAnalysis(df) == df

OfTypeAndTechnology(df, type, tech) ==
    SelectSeq(df, LAMBDA r : r.OperationType = type /\ r.Technology = tech)

\* the fifteen (OperationType, Technology) keys in the order groupby gives
TypeKeys ==
    [k \in 1..15 |-> <<SortedOperationTypes[((k - 1) \div 3) + 1],
                       SortedTechnologies[((k - 1) % 3) + 1]>>]

TypeKeysIn(df) ==
    SelectSeq(TypeKeys, LAMBDA key : OfTypeAndTechnology(df, key[1], key[2]) # <<>>)

\* df_copy.groupby(['OperationType', 'Technology']).agg(...).reset_index()
GroupByTypeAndTechnology(df) ==
    [i \in 1..Len(TypeKeysIn(df)) |->
        AverageRow(TypeKeysIn(df)[i],
                   OfTypeAndTechnology(df, TypeKeysIn(df)[i][1], TypeKeysIn(df)[i][2]))]

-----------------------------------------------------------------------------
(* The chart-construction routines.  A figure is kept as its title and the *)
(* table its traces are drawn from.  A table built from no record has no   *)
(* column, so that selecting one of its columns raises KeyError.           *)

Figure(title, content) == [raised |-> FALSE, title |-> title, content |-> content]
ChartRaised == [raised |-> TRUE, title |-> "", content |-> <<>>]

create_antes_despues_comparison_chart(df_all) ==
    IF df_all = <<>> THEN ChartRaised
    ELSE Figure("Comparación Completa: ANTES vs DESPUÉS", df_all)

create_performance_improvement_analysis(df_all) ==
    IF df_all = <<>> THEN ChartRaised
    ELSE Figure("Análisis de Mejoras de Rendimiento", df_all)

create_detailed_analysis_summary(df_all) ==
    IF df_all = <<>> THEN ChartRaised
    ELSE Figure("Resumen y Análisis Detallado", df_all)

create_crud_performance_chart(df) ==
    IF df = <<>> THEN ChartRaised
    ELSE Figure("Análisis de Operaciones CRUD (ANTES) - Con Contexto Comparativo", df)

create_query_performance_chart(df) ==
    IF df = <<>> THEN ChartRaised
    ELSE Figure("Análisis de Operaciones de Consulta (DESPUÉS) - Con Contexto de Mejora", df)

\* the bars are the per-technology averages of the table handed in
create_technology_comparison_chart(df) ==
    IF df = <<>> THEN ChartRaised
    ELSE Figure("Comparación General por Tecnología", GroupByTechnology(df))

\* the bars are the averages per operation type and technology
create_operation_type_analysis(df) ==
    IF df = <<>> THEN ChartRaised
    ELSE Figure("Análisis por Tipo de Operación",
                GroupByTypeAndTechnology(WithOperationType(df)))

\* size='Time_μs': plotly takes for a marker size a number that is 0 or
\* more, and raises ValueError on NaN and on a number below 0
SizeOk(v) == v # NaN /\ ~IsNegative(v)

\* px.scatter(crud_data, ...) and px.scatter(query_data, ...)
scatter(df, title) ==
    IF df = <<>> THEN ChartRaised
    ELSE IF \E i \in 1..Len(df) : ~SizeOk(df[i].Time) THEN ChartRaised
    ELSE Figure(title, df)

-----------------------------------------------------------------------------
(* The dropdown, the explanatory text and the callback *)

\* the seven values of the dropdown's options
Options ==
    {"antes_despues_complete", "crud_general", "query_general",
     "performance_improvement", "tech_comparison", "operation_type",
     "detailed_summary"}

\* value='antes_despues_complete'
DefaultOption == "antes_despues_complete"

\* the dropdown cleared: the callback receives None
NoSelection == "None"

\* what the callback may receive: an option, one of the two values it
\* handles without offering them, no value, or any other value
Selections ==
    Options \cup {"crud_detailed", "query_detailed", NoSelection, "other"}

\* a text block: its heading and, for the improvement block, the two
\* averages its percentage is computed from
TextBlock(heading, averages) ==
    [raised |-> FALSE, heading |-> heading, averages |-> averages]
TextRaised == [raised |-> TRUE, heading |-> "", averages |-> <<>>]

\* antes_avg and despues_avg
PeriodAverages(all) ==
    << mean(TimeColumn(OfPeriod(all, "Antes"))),
       mean(TimeColumn(OfPeriod(all, "Después"))) >>

\* a variant with the final else branch only
DefaultTextOnly(selected_analysis, all) ==
    TextBlock("Análisis de Rendimiento", <<>>)

get_analysis_text(selected_analysis, all) ==
    IF selected_analysis = "antes_despues_complete"
    THEN TextBlock("Análisis Comparativo Completo", <<>>)
    ELSE IF selected_analysis = "performance_improvement"
    THEN (IF all = <<>> THEN TextRaised
          ELSE TextBlock("Análisis de Mejoras de Rendimiento", PeriodAverages(all)))
    ELSE IF selected_analysis = "detailed_summary"
    THEN TextBlock("Resumen Ejecutivo y Conclusiones", <<>>)
    ELSE TextBlock("Análisis de Rendimiento", <<>>)

\* what a call of update_chart comes to
NotCalled == [kind |-> "not called", figure |-> ChartRaised, text |-> TextRaised]
Raises == [kind |-> "raised", figure |-> ChartRaised, text |-> TextRaised]
ReturnsNone == [kind |-> "none", figure |-> ChartRaised, text |-> TextRaised]
Returns(fig, text) ==
    IF fig.raised THEN Raises
    ELSE [kind |-> "pair", figure |-> fig, text |-> text]

\* the if / elif chain of update_chart; it has no else branch, and a value
\* no branch tests falls off the end of the function
Dispatch(selected_analysis, analysis_text, crud, query, all) ==
    IF selected_analysis = "antes_despues_complete"
    THEN Returns(create_antes_despues_comparison_chart(all), analysis_text)
    ELSE IF selected_analysis = "crud_general"
    THEN Returns(create_crud_performance_chart(crud), analysis_text)
    ELSE IF selected_analysis = "query_general"
    THEN Returns(create_query_performance_chart(query), analysis_text)
    ELSE IF selected_analysis = "performance_improvement"
    THEN Returns(create_performance_improvement_analysis(all), analysis_text)
    ELSE IF selected_analysis = "tech_comparison"
    THEN Returns(create_technology_comparison_chart(crud), analysis_text)
    ELSE IF selected_analysis = "operation_type"
    THEN Returns(create_operation_type_analysis(crud), analysis_text)
    ELSE IF selected_analysis = "detailed_summary"
    THEN Returns(create_detailed_analysis_summary(all), analysis_text)
    ELSE IF selected_analysis = "crud_detailed"
    THEN Returns(scatter(crud, "Análisis Detallado: Tiempo vs Memoria (Operaciones CRUD)"),
                 analysis_text)
    ELSE IF selected_analysis = "query_detailed"
    THEN Returns(scatter(query, "Análisis Detallado: Tiempo vs Memoria (Consultas)"),
                 analysis_text)
    ELSE ReturnsNone

\* update_chart on given process-wide tables: the text is built first
UpdateChartOn(selected_analysis, crud, query, all) ==
    IF get_analysis_text(selected_analysis, all).raised THEN Raises
    ELSE Dispatch(selected_analysis, get_analysis_text(selected_analysis, all),
                  crud, query, all)

update_chart(selected_analysis) ==
    UpdateChartOn(selected_analysis, crud_data.rows, query_data.rows, all_data.rows)

\* crud_data once update_chart has handled the selection
CrudDataAfter(selected_analysis) ==
    IF selected_analysis = "operation_type" /\ crud_data.rows # <<>>
    THEN Prepared(CallerTableAfterTypeAnalysis(crud_data.rows))
    ELSE crud_data

-----------------------------------------------------------------------------
(* Rows the benchmark reports are made of *)

IsBefore(t) == t \in {"ef_antes", "adonet_antes", "dapper_antes"}

AfterTables == {"ef_despues", "adonet_despues", "dapper_despues"}

TechnologyOf(t) ==
    CASE t \in {"ef_antes", "ef_despues"} -> "Entity Framework"
      [] t \in {"adonet_antes", "adonet_despues"} -> "ADO.NET"
      [] t \in {"dapper_antes", "dapper_despues"} -> "Dapper"

TagOf(t) ==
    CASE t = "ef_despues" -> TagEF
      [] t = "adonet_despues" -> TagAdoNet
      [] t = "dapper_despues" -> TagDapper

ReadOrder == <<"R", "e", "a", "d", "O", "r", "d", "e", "r">>
GetOrder == <<"G", "e", "t", "O", "r", "d", "e", "r">>

\* operation names the reports mention: a listed CRUD operation and a query
OperationNames == {ReadOrder, GetOrder}

\* how a report of table t writes the operation: bare in a before-period
\* report, tagged and quoted (EF: 'GetOrder') in an after-period report
Written(t, op) ==
    IF IsBefore(t) THEN op ELSE TagOf(t) \o Apostrophe \o op \o Apostrophe

\* (Mean, Allocated) cells: two well-formed pairs, one whose Mean has its
\* unit written without a space, and one whose Mean is below zero
Measurements ==
    << <<Text(<<"1", " ", "m", "s">>), Text(<<"1", " ", "K", "B">>)>>,
       <<Text(<<"2", " ", "s">>), Text(<<"2", " ", "M", "B">>)>>,
       <<Text(<<"1", "m", "s">>), Text(<<"1", " ", "K", "B">>)>>,
       <<Text(<<"-", "1", " ", "m", "s">>), Text(<<"1", " ", "K", "B">>)>> >>

\* the rows a report may hold: an operation with its measurements
RowKinds ==
    { <<ReadOrder, Measurements[1]>>, <<ReadOrder, Measurements[2]>>,
      <<GetOrder, Measurements[4]>>, <<GetOrder, Measurements[3]>> }

RowChoices(t) ==
    {[Method |-> Written(t, k[1]), Mean |-> k[2][1], Allocated |-> k[2][2]] :
        k \in RowKinds}

TotalRows(d) ==
    Len(d.ef_antes) + Len(d.adonet_antes) + Len(d.dapper_antes)
      + Len(d.ef_despues) + Len(d.adonet_despues) + Len(d.dapper_despues)

-----------------------------------------------------------------------------
(* Start-up: the module-level code that loads and prepares the data *)

AppIdle ==
    /\ app = "load"
    /\ data = EmptyData
    /\ crud_data = NotPrepared
    /\ query_data = NotPrepared
    /\ all_data = NotPrepared
    /\ calls = <<>>
    /\ selected = NoSelection
    /\ outcome = NotCalled
    /\ requests = 0

NormIdle ==
    /\ pc = "idle"
    /\ fn = "time"
    /\ arg = Text(<<>>)
    /\ ntok = 0
    /\ result = NoResult
    /\ unit = "none"
    /\ prev = NoResult
    /\ round = 0

Init == AppIdle /\ NormIdle

\* load_data: pd.read_csv reads one more row of one of the six reports
LoadRow ==
    /\ app = "load"
    /\ TotalRows(data) < MaxRows
    /\ \E i \in 1..6 : \E row \in RowChoices(TableNames[i]) :
          data' = [data EXCEPT ![TableNames[i]] = Append(@, row)]
    /\ UNCHANGED <<app, crud_data, query_data, all_data>>
    /\ UNCHANGED normVars
    /\ UNCHANGED calls
    /\ UNCHANGED uiVars

\* crud_data = prepare_crud_comparison_data(data)
PrepareCrud ==
    /\ app = "load"
    /\ crud_data' = prepare_crud_comparison_data(data)
    /\ app' = IF crud_data'.raised THEN "crashed" ELSE "crud"
    /\ UNCHANGED <<data, query_data, all_data>>
    /\ UNCHANGED normVars
    /\ UNCHANGED calls
    /\ UNCHANGED uiVars

\* query_data = prepare_query_comparison_data(data)
PrepareQuery ==
    /\ app = "crud"
    /\ query_data' = prepare_query_comparison_data(data)
    /\ app' = IF query_data'.raised THEN "crashed" ELSE "query"
    /\ UNCHANGED <<data, crud_data, all_data>>
    /\ UNCHANGED normVars
    /\ UNCHANGED calls
    /\ UNCHANGED uiVars

\* all_data = prepare_antes_despues_comparison_data(data)
PrepareAll ==
    /\ app = "query"
    /\ all_data' = prepare_antes_despues_comparison_data(data)
    /\ app' = IF all_data'.raised THEN "crashed" ELSE "ready"
    /\ UNCHANGED <<data, crud_data, query_data>>
    /\ UNCHANGED normVars
    /\ UNCHANGED calls
    /\ UNCHANGED uiVars

Next == LoadRow \/ PrepareCrud \/ PrepareQuery \/ PrepareAll

Spec == Init /\ [][Next]_vars

-----------------------------------------------------------------------------
(* The server: the reports are read, the module-level code prepares the   *)
(* three tables, and the callback then handles the dropdown's selections  *)

\* load_data, for the reports the server is started on
ReadReportRow ==
    /\ app = "load"
    /\ TotalRows(data) < MaxServedRows
    /\ \E i \in 1..6 : \E row \in RowChoices(TableNames[i]) :
          data' = [data EXCEPT ![TableNames[i]] = Append(@, row)]
    /\ UNCHANGED <<app, crud_data, query_data, all_data>>
    /\ UNCHANGED normVars
    /\ UNCHANGED calls
    /\ UNCHANGED uiVars

\* whether the module-level preparation of d completes
PreparationCompletes(d) ==
    /\ ~prepare_crud_comparison_data(d).raised
    /\ ~prepare_query_comparison_data(d).raised
    /\ ~prepare_antes_despues_comparison_data(d).raised

\* the three module-level assignments, up to the first that raises
StartServer ==
    /\ app = "load"
    /\ crud_data' = prepare_crud_comparison_data(data)
    /\ query_data' = IF crud_data'.raised THEN NotPrepared
                     ELSE prepare_query_comparison_data(data)
    /\ all_data' = IF crud_data'.raised \/ query_data'.raised THEN NotPrepared
                   ELSE prepare_antes_despues_comparison_data(data)
    /\ app' = IF PreparationCompletes(data) THEN "ready" ELSE "crashed"
    /\ UNCHANGED data
    /\ UNCHANGED normVars
    /\ UNCHANGED calls
    /\ UNCHANGED uiVars

\* the callback handles one selection of the dropdown
UpdateChart ==
    /\ app = "ready"
    /\ requests < MaxRequests
    /\ \E selected_analysis \in Selections :
          /\ selected' = selected_analysis
          /\ outcome' = update_chart(selected_analysis)
          /\ crud_data' = CrudDataAfter(selected_analysis)
    /\ requests' = requests + 1
    /\ UNCHANGED <<app, data, query_data, all_data>>
    /\ UNCHANGED calls
    /\ UNCHANGED normVars

ServerNext == ReadReportRow \/ StartServer \/ UpdateChart

SpecServer == Init /\ [][ServerNext]_vars

-----------------------------------------------------------------------------
(* The three preparation routines called, in any order, on the same       *)
(* loaded data                                                            *)

Routines == {"crud", "query", "all"}

\* the source tables a routine takes its copies of
TablesOf(routine) ==
    CASE routine = "crud" -> {"ef_antes", "adonet_antes", "dapper_antes"}
      [] routine = "query" -> AfterTables
      [] routine = "all" -> {TableNames[i] : i \in 1..6}

IndexOf(t) == CHOOSE i \in 1..6 : TableNames[i] = t

\* a variant without the copy: the columns are added to the table of data
ColumnsAddedInPlace(df, cols) == WithCanonicalColumns(df, cols)

\* ef_antes = data['ef_antes'].copy(): the columns Mean_μs and Allocated_KB
\* are assigned to the copy, and the table of data is what it was
SourceTableAfter(df, cols) == df

\* the loaded data once a routine has run on it
DataAfter(d, cols, routine) ==
    [t \in DOMAIN d |->
        IF t \in TablesOf(routine) THEN SourceTableAfter(d[t], cols[IndexOf(t)])
        ELSE d[t]]

ResultOf(routine, d) ==
    CASE routine = "crud" -> prepare_crud_comparison_data(d)
      [] routine = "query" -> prepare_query_comparison_data(d)
      [] routine = "all" -> prepare_antes_despues_comparison_data(d)

Called(routine) == \E i \in 1..Len(calls) : calls[i] = routine

\* a routine that has not run yet is called on the loaded data
CallRoutine ==
    /\ app \in {"load", "preparing"}
    /\ \E routine \in Routines :
          /\ ~Called(routine)
          /\ calls' = Append(calls, routine)
          /\ crud_data' = IF routine = "crud" THEN ResultOf(routine, data) ELSE crud_data
          /\ query_data' = IF routine = "query" THEN ResultOf(routine, data) ELSE query_data
          /\ all_data' = IF routine = "all" THEN ResultOf(routine, data) ELSE all_data
          /\ data' = DataAfter(data, AppliedAll(data), routine)
          /\ app' = IF (routine = "crud" /\ crud_data'.raised)
                        \/ (routine = "query" /\ query_data'.raised)
                        \/ (routine = "all" /\ all_data'.raised)
                     THEN "crashed" ELSE "preparing"
    /\ UNCHANGED normVars
    /\ UNCHANGED uiVars

PrepareNext == ReadReportRow \/ CallRoutine

SpecPrepare == Init /\ [][PrepareNext]_vars

-----------------------------------------------------------------------------
(* The normalizer applied to one argument, and again to what it returned *)

NormInit ==
    /\ AppIdle
    /\ pc = "write"
    /\ fn \in {"time", "memory"}
    /\ arg = Text(<<>>)
    /\ ntok = 0
    /\ result = NoResult
    /\ unit = "none"
    /\ prev = NoResult
    /\ round = 0

\* the raw measurement text grows by one token of the vocabulary
WriteToken ==
    /\ pc = "write"
    /\ ntok < MaxTokens
    /\ \E tok \in Vocabulary(fn) : arg' = Text(arg.text \o tok)
    /\ ntok' = ntok + 1
    /\ UNCHANGED <<pc, fn, result, unit, prev, round>>
    /\ UNCHANGED appVars
    /\ UNCHANGED uiVars

\* the cell is missing, or holds one of the listed texts
WriteWhole ==
    /\ pc = "write"
    /\ ntok = 0
    /\ arg' \in WholeArguments
    /\ pc' = "call"
    /\ UNCHANGED <<fn, ntok, result, unit, prev, round>>
    /\ UNCHANGED appVars
    /\ UNCHANGED uiVars

CallParseTime ==
    /\ pc \in {"write", "call"}
    /\ fn = "time"
    /\ result' = parse_time_to_microseconds(arg)
    /\ unit' = TimeBranch(arg)
    /\ pc' = "returned"
    /\ UNCHANGED <<fn, arg, ntok, prev, round>>
    /\ UNCHANGED appVars
    /\ UNCHANGED uiVars

CallParseMemory ==
    /\ pc \in {"write", "call"}
    /\ fn = "memory"
    /\ result' = parse_memory(arg)
    /\ unit' = MemoryBranch(arg)
    /\ pc' = "returned"
    /\ UNCHANGED <<fn, arg, ntok, prev, round>>
    /\ UNCHANGED appVars
    /\ UNCHANGED uiVars

\* the number a call returned is normalised again, by either operation
Renormalize ==
    /\ pc = "returned"
    /\ ~result.raised
    /\ round < MaxRounds
    /\ arg' = Number(result.kind, result.num)
    /\ prev' = result
    /\ result' = NoResult
    /\ unit' = "none"
    /\ round' = round + 1
    /\ pc' = "call"
    /\ fn' \in {"time", "memory"}
    /\ UNCHANGED ntok
    /\ UNCHANGED appVars
    /\ UNCHANGED uiVars

NormNext ==
    WriteToken \/ WriteWhole \/ CallParseTime \/ CallParseMemory \/ Renormalize

SpecNorm == NormInit /\ [][NormNext]_vars

-----------------------------------------------------------------------------
(* Vocabulary of the normalizer's claims *)

Returned == pc = "returned"

\* the documented markers, in the documented order, with their factors
DocumentedUnits(f) ==
    IF f = "time"
    THEN << [name |-> "ms", mark |-> Ms, factor |-> 1000],
            [name |-> "μs", mark |-> Mus, factor |-> 1],
            [name |-> "s", mark |-> S, factor |-> 1000000] >>
    ELSE << [name |-> "KB", mark |-> KB, factor |-> 1],
            [name |-> "MB", mark |-> MB, factor |-> 1024],
            [name |-> "GB", mark |-> GB, factor |-> 1048576] >>

\* the text with every ',' and '"' left out
Stripped(s) == SelectSeq(s, LAMBDA c : c \notin {",", "\""})

NoMarker(f, t) ==
    \A i \in 1..3 : ~Contains(t, DocumentedUnits(f)[i].mark)

\* index of the first documented marker that occurs in t, 0 when none does
FirstMarker(f, t) ==
    IF NoMarker(f, t) THEN 0
    ELSE CHOOSE i \in 1..3 :
            /\ Contains(t, DocumentedUnits(f)[i].mark)
            /\ \A j \in 1..(i - 1) : ~Contains(t, DocumentedUnits(f)[j].mark)

\* t is a number immediately followed by the marker, with or without a space
\* between them; the number is then t's numeric prefix
IsNumberThenMarker(t, k, mark) ==
    /\ FloatOk(SubSeq(t, 1, k))
    /\ SubSeq(t, k + 1, Len(t)) \in {mark, <<" ">> \o mark}

GarbageText == <<"g", "a", "r", "b", "a", "g", "e">>

-----------------------------------------------------------------------------
(* One after-period report row, its operation name made of tokens, handed *)
(* to the two routines that build a record from it                        *)

Get == <<"G", "e", "t">>
Order == <<"O", "r", "d", "e", "r">>

\* what an operation name is made of
NameVocabulary(t) == {Get, Order, <<" ">>, Apostrophe, TagOf(t)}

MethodInit ==
    /\ AppIdle
    /\ pc = "name"
    /\ fn \in AfterTables
    /\ arg = Text(<<>>)
    /\ ntok = 0
    /\ result = NoResult
    /\ unit = "none"
    /\ prev = NoResult
    /\ round = 0

\* the operation name grows by one token
WriteNameToken ==
    /\ pc = "name"
    /\ ntok < MaxTokens
    /\ \E tok \in NameVocabulary(fn) : arg' = Text(arg.text \o tok)
    /\ ntok' = ntok + 1
    /\ UNCHANGED <<pc, fn, result, unit, prev, round>>
    /\ UNCHANGED appVars
    /\ UNCHANGED uiVars

\* the report of table fn with the single row of the operation arg
OneRowReport(t, name) ==
    [EmptyData EXCEPT ![t] =
        << [Method |-> Written(t, name),
            Mean |-> Measurements[1][1], Allocated |-> Measurements[1][2]] >>]

\* the report is read and the two routines build their record from its row
BuildRecords ==
    /\ pc = "name"
    /\ ntok > 0
    /\ data' = OneRowReport(fn, arg.text)
    /\ query_data' = prepare_query_comparison_data(data')
    /\ all_data' = prepare_antes_despues_comparison_data(data')
    /\ pc' = "built"
    /\ UNCHANGED <<app, crud_data>>
    /\ UNCHANGED <<fn, arg, ntok, result, unit, prev, round>>
    /\ UNCHANGED calls
    /\ UNCHANGED uiVars

MethodNext == WriteNameToken \/ BuildRecords

SpecMethod == MethodInit /\ [][MethodNext]_vars

-----------------------------------------------------------------------------
(* create_operation_type_analysis called on a table of records *)

GetUpdatedOrders ==
    <<"G", "e", "t", "U", "p", "d", "a", "t", "e", "d", "O", "r", "d", "e", "r", "s">>

\* the operations of the records: the sixteen listed ones, a query, and a
\* query whose name holds a verb
AnalysedOperations == ListedNames \cup {GetOrder, GetUpdatedOrders}

\* the records a table may hold
AnalysedRecords ==
    {[Operation |-> op, Technology |-> tech, Time |-> FromInt(1000), Memory |-> FromInt(1)] :
        op \in AnalysedOperations, tech \in {"Entity Framework", "Dapper"}}

Table(rows) == [kind |-> "table", rows |-> rows]

TypeInit ==
    /\ AppIdle
    /\ pc = "table"
    /\ fn = "operation_type"
    /\ arg = Table(<<>>)
    /\ ntok = 0
    /\ result = ChartRaised
    /\ unit = "none"
    /\ prev = NoResult
    /\ round = 0

\* the table grows by one record
AddRecord ==
    /\ pc = "table"
    /\ Len(arg.rows) < MaxRecords
    /\ \E rec \in AnalysedRecords : arg' = Table(Append(arg.rows, rec))
    /\ UNCHANGED <<pc, fn, ntok, result, unit, prev, round>>
    /\ UNCHANGED appVars
    /\ UNCHANGED uiVars

\* the routine is called on the table; arg is the caller's table after it
AnalyseTypes ==
    /\ pc = "table"
    /\ result' = create_operation_type_analysis(arg.rows)
    /\ arg' = IF arg.rows = <<>> THEN arg
              ELSE Table(CallerTableAfterTypeAnalysis(arg.rows))
    /\ pc' = "analysed"
    /\ UNCHANGED <<fn, ntok, unit, prev, round>>
    /\ UNCHANGED appVars
    /\ UNCHANGED uiVars

TypeNext == AddRecord \/ AnalyseTypes

SpecType == TypeInit /\ [][TypeNext]_vars

-----------------------------------------------------------------------------
(* Claims C1 - C9: the normalizer *)

\* C1 (as claimed): both operations are total; no call ends in an exception.
C1_NeverRaises == Returned => ~result.raised

\* C2 (as claimed): whenever the text is a number followed by a recognized
\* marker, with or without a space before the marker, the call returns the
\* number multiplied by the documented factor of that marker.
C2_MarkerScaled ==
    (Returned /\ arg.kind = "text") =>
        \A i \in 1..3 : \A k \in 1..Len(Stripped(arg.text)) :
            LET u == DocumentedUnits(fn)[i]
                t == Stripped(arg.text)
            IN  IsNumberThenMarker(t, k, u.mark) =>
                    result = RetFloat(Times(FloatVal(SubSeq(t, 1, k)), u.factor))

\* C3: a text in which, once separators and quotes are stripped, no marker
\* occurs and which float() does not accept yields 0, without an exception.
C3_MalformedIsZero ==
    (/\ Returned
     /\ arg.kind = "text"
     /\ NoMarker(fn, Stripped(arg.text))
     /\ ~FloatOk(Stripped(arg.text)))
        => (~result.raised /\ result.num = Zero)

C3_Witness ==
    /\ Returned
    /\ arg.kind = "text"
    /\ arg.text # <<>>
    /\ Stripped(arg.text) # <<>>
    /\ NoMarker(fn, Stripped(arg.text))
    /\ ~FloatOk(Stripped(arg.text))
    /\ result = RetInt(Zero)

\* C4: parse_time_to_microseconds("garbage") returns 0.
C4_GarbageIsZero ==
    (Returned /\ fn = "time" /\ arg = Text(GarbageText))
        => (~result.raised /\ result.num = Zero)

C4_Witness ==
    /\ Returned
    /\ fn = "time"
    /\ arg = Text(GarbageText)
    /\ unit = "none"
    /\ result = RetInt(Zero)

\* C5: for None, NaN and the empty string both operations return 0.
C5_AbsentIsZero ==
    (Returned /\ arg \in {None, NotANumber, Text(<<>>)})
        => (~result.raised /\ result.num = Zero)

C5_Witness ==
    /\ Returned
    /\ arg = NotANumber
    /\ unit = "early"
    /\ result = RetInt(Zero)

\* C6 (as claimed): no returned value is negative.
C6_NeverNegative == (Returned /\ ~result.raised) => ~IsNegative(result.num)

\* C7: the branch taken is that of the first marker, in the documented order
\* (ms, μs, s; KB, MB, GB), that occurs in the stripped text, and the value is
\* what remains without " <marker>", converted and multiplied by that
\* marker's factor; a number followed by " ms" is multiplied by 1000.
C7_FirstMarkerWins ==
    (Returned /\ arg.kind = "text" /\ arg.text # <<>>) =>
        LET t == Stripped(arg.text)
            i == FirstMarker(fn, t)
            u == DocumentedUnits(fn)[i]
        IN  /\ i = 0 => unit = "none"
            /\ i # 0 =>
                /\ unit = u.name
                /\ result = FloatTimes(Replace(t, <<" ">> \o u.mark, <<>>), u.factor)
            /\ \A k \in 1..Len(t) :
                 (fn = "time" /\ FloatOk(SubSeq(t, 1, k))
                              /\ SubSeq(t, k + 1, Len(t)) = SpMs)
                    => result = RetFloat(Times(FloatVal(SubSeq(t, 1, k)), 1000))

C7_Witness ==
    /\ Returned
    /\ fn = "time"
    /\ arg = Text(<<"1", " ", "m", "s">>)
    /\ Contains(arg.text, S)
    /\ unit = "ms"
    /\ result = RetFloat(FromInt(1000))

\* C8: the outcome is that of the text with every ',' and '"' left out, so
\* texts that differ only in such characters have the same outcome;
\* "1,234 ms" yields 1234000.
C8_SeparatorsIgnored ==
    (Returned /\ arg.kind = "text") =>
        /\ result = Apply(fn, Text(Stripped(arg.text)))
        /\ (fn = "time" /\ arg.text = <<"1", ",", "2", "3", "4", " ", "m", "s">>)
              => result = RetFloat(FromInt(1234000))

C8_Witness ==
    /\ Returned
    /\ fn = "time"
    /\ arg = Text(<<"1", ",", "2", "3", "4", " ", "m", "s">>)
    /\ result = RetFloat(FromInt(1234000))

\* C9: a number handed to either operation comes back as the same number, so
\* normalising a returned value again changes nothing.
C9_Idempotent ==
    (Returned /\ arg.kind \in {"int", "float"} /\ arg.num # NaN) =>
        /\ ~result.raised
        /\ result.num = arg.num
        /\ round > 0 => result.num = prev.num

C9_Witness ==
    /\ Returned
    /\ round > 0
    /\ arg.kind = "float"
    /\ ~IsSpecial(arg.num)
    /\ ~arg.num.neg
    /\ arg.num.e < 0
    /\ result = RetFloat(prev.num)

-----------------------------------------------------------------------------
(* Vocabulary of the comparison tables' claims *)

ListedOperations == ListedNames

\* the rows of source table t that are about operation op
SourceRows(t, op) == SelectSeq(data[t], LAMBDA r : r.Method = Written(t, op))

\* the records of a comparison table for one (operation, technology) pair
RecordsFor(rows, op, tech) ==
    SelectSeq(rows, LAMBDA r : r.Operation = op /\ r.Technology = tech)

\* the record carries the normalized Mean and Allocated of the source row
CarriesValuesOf(rec, row) ==
    /\ rec.Time = parse_time_to_microseconds(row.Mean).num
    /\ rec.Memory = parse_memory(row.Allocated).num

\* exactly one record for the pair, carrying the values of the source row
OneRecordOf(rows, op, tech, row) ==
    /\ Len(RecordsFor(rows, op, tech)) = 1
    /\ CarriesValuesOf(RecordsFor(rows, op, tech)[1], row)

BeforeTableOf(k) == TableNames[k]
AfterTableOf(k) == TableNames[k + 3]

\* op is in a source table of the k-th technology and of no other one
InOneTechnologyOnly(op, k) ==
    /\ SourceRows(BeforeTableOf(k), op) \o SourceRows(AfterTableOf(k), op) # <<>>
    /\ \A j \in (1..3) \ {k} :
          SourceRows(BeforeTableOf(j), op) \o SourceRows(AfterTableOf(j), op) = <<>>

\* op is in the i-th source table and in none of the other five
InOneTableOnly(op, i) ==
    /\ SourceRows(TableNames[i], op) # <<>>
    /\ \A j \in (1..6) \ {i} : SourceRows(TableNames[j], op) = <<>>

-----------------------------------------------------------------------------
(* Claim C10: aggregation *)

\* C10 (as claimed): an operation name present in the source tables of
\* exactly one technology has exactly one record for that (operation,
\* technology) pair in the combined table, with the normalized Mean and
\* Allocated of a source row.
C10_OneRecordPerOperation ==
    app = "ready" =>
        \A op \in OperationNames : \A k \in 1..3 :
            InOneTechnologyOnly(op, k) =>
                \E row \in {r \in RowChoices(BeforeTableOf(k)) \cup RowChoices(AfterTableOf(k)) :
                              r.Method \in {Written(BeforeTableOf(k), op),
                                            Written(AfterTableOf(k), op)}} :
                    OneRecordOf(all_data.rows, op, Technologies[k], row)

\* C10 (amended): an operation name present in exactly one of the six source
\* tables -- one of the sixteen listed operations if that is a before-period
\* table, the name of a single row if it is an after-period table -- has
\* exactly one record for that (operation, technology) pair in the combined
\* table, with the normalized Mean and Allocated of its (first) source row;
\* for a before-period table the same holds of the CRUD comparison table.
C10_OneRecordPerListedOperation ==
    \A op \in OperationNames : \A i \in 1..6 :
        (/\ InOneTableOnly(op, i)
         /\ i <= 3 => op \in ListedOperations
         /\ i > 3 => Len(SourceRows(TableNames[i], op)) = 1)
        =>
        /\ app = "ready" =>
              OneRecordOf(all_data.rows, op, TechnologyOf(TableNames[i]),
                          SourceRows(TableNames[i], op)[1])
        /\ (app \in {"crud", "query", "ready"} /\ i <= 3) =>
              OneRecordOf(crud_data.rows, op, TechnologyOf(TableNames[i]),
                          SourceRows(TableNames[i], op)[1])

C10_Witness ==
    /\ app = "ready"
    /\ InOneTableOnly(ReadOrder, 1)
    /\ Len(data.ef_antes) = 2
    /\ data.ef_antes[1].Mean # data.ef_antes[2].Mean
    /\ data.ef_antes[1].Method = data.ef_antes[2].Method
    /\ Len(RecordsFor(all_data.rows, ReadOrder, "Entity Framework")) = 1
    /\ Len(RecordsFor(crud_data.rows, ReadOrder, "Entity Framework")) = 1

-----------------------------------------------------------------------------
(* Claim C11: a technology without a row for an operation *)

\* the before-period records of the combined table
AntesOf(rows) == SelectSeq(rows, LAMBDA r : r.Period = "Antes")

\* a Mean or Allocated cell of one of the tables i \in tables makes its
\* normalizer raise
MalformedCellIn(tables) ==
    \E i \in tables : \E r \in 1..Len(data[TableNames[i]]) :
        \/ parse_time_to_microseconds(data[TableNames[i]][r].Mean).raised
        \/ parse_memory(data[TableNames[i]][r].Allocated).raised

\* in the table "rows": no record for the k-th technology, one record for
\* each other technology whose before-period table has the operation
SkippedIn(rows, op, k) ==
    /\ RecordsFor(rows, op, Technologies[k]) = <<>>
    /\ \A j \in (1..3) \ {k} :
          SourceRows(BeforeTableOf(j), op) # <<>> =>
              Len(RecordsFor(rows, op, Technologies[j])) = 1

\* C11: when the before-period table of a technology has no row for a listed
\* operation, the preparation does not fail because of it (it fails only on
\* a cell its normalizer rejects), the comparison tables hold no record for
\* that (operation, technology) pair, and the other technologies that have
\* the operation still get their record.
C11_MissingRowsSkipped ==
    /\ crud_data.raised => MalformedCellIn(1..3)
    /\ all_data.raised => MalformedCellIn(1..6)
    /\ app \in {"crud", "query", "ready"} =>
          \A op \in ListedOperations : \A k \in 1..3 :
              SourceRows(BeforeTableOf(k), op) = <<>> =>
                  /\ SkippedIn(crud_data.rows, op, k)
                  /\ app = "ready" => SkippedIn(AntesOf(all_data.rows), op, k)

C11_Witness ==
    /\ app = "ready"
    /\ data.ef_antes # <<>>
    /\ SourceRows("ef_antes", ReadOrder) = <<>>
    /\ SourceRows("adonet_antes", ReadOrder) # <<>>
    /\ SourceRows("dapper_antes", ReadOrder) # <<>>
    /\ Len(crud_data.rows) = 2
    /\ Len(AntesOf(all_data.rows)) = 2

-----------------------------------------------------------------------------
(* Claim C12: one row per (technology, operation, period) *)

SameTriple(r, q) ==
    /\ r.Technology = q.Technology
    /\ r.Operation = q.Operation
    /\ r.Period = q.Period

\* C12: no two records of the combined table share the same Technology,
\* Operation and Period, whatever the six source tables hold.
C12_OneRowPerTriple ==
    app = "ready" =>
        \A i, j \in 1..Len(all_data.rows) :
            i # j => ~SameTriple(all_data.rows[i], all_data.rows[j])

-----------------------------------------------------------------------------
(* Claim C13: seven views, each with its routine and its text block *)

\* the lookup table of the views: the title of the figure its routine
\* builds, the heading of its text block, the process-wide table it draws
TitleOfView ==
    [v \in Options |->
        CASE v = "antes_despues_complete" -> "Comparación Completa: ANTES vs DESPUÉS"
          [] v = "crud_general" ->
                 "Análisis de Operaciones CRUD (ANTES) - Con Contexto Comparativo"
          [] v = "query_general" ->
                 "Análisis de Operaciones de Consulta (DESPUÉS) - Con Contexto de Mejora"
          [] v = "performance_improvement" -> "Análisis de Mejoras de Rendimiento"
          [] v = "tech_comparison" -> "Comparación General por Tecnología"
          [] v = "operation_type" -> "Análisis por Tipo de Operación"
          [] v = "detailed_summary" -> "Resumen y Análisis Detallado"]

HeadingOfView ==
    [v \in Options |->
        CASE v = "antes_despues_complete" -> "Análisis Comparativo Completo"
          [] v = "performance_improvement" -> "Análisis de Mejoras de Rendimiento"
          [] v = "detailed_summary" -> "Resumen Ejecutivo y Conclusiones"
          [] OTHER -> "Análisis de Rendimiento"]

TableOfView(v) ==
    CASE v \in {"antes_despues_complete", "performance_improvement", "detailed_summary"}
              -> all_data.rows
      [] v \in {"crud_general", "tech_comparison", "operation_type"} -> crud_data.rows
      [] v = "query_general" -> query_data.rows

\* the callback has handled a selection
Handled == app = "ready" /\ requests > 0

\* C13: the dropdown offers seven values, and for each of them update_chart
\* comes to the result of one routine and one text block fixed by the value:
\* it never falls off its if-chain, the figure it returns has the title of
\* the value's routine, the text is the block get_analysis_text returns for
\* the value, and it raises only where that routine (or that block) raises,
\* on a table without records.
C13_SevenViews ==
    /\ Cardinality(Options) = 7
    /\ DefaultOption \in Options
    /\ (Handled /\ selected \in Options) =>
          /\ outcome.kind \in {"pair", "raised"}
          /\ outcome.kind = "pair" =>
                /\ outcome.figure.title = TitleOfView[selected]
                /\ outcome.text = get_analysis_text(selected, all_data.rows)
                /\ outcome.text.heading = HeadingOfView[selected]
          /\ outcome.kind = "raised" => TableOfView(selected) = <<>>

C13_Witness ==
    /\ Handled
    /\ selected = "performance_improvement"
    /\ outcome.kind = "pair"
    /\ outcome.text.averages[1] # NaN
    /\ outcome.text.averages[2] # NaN

-----------------------------------------------------------------------------
(* Claim C14: the prepared tables are read-only once the server runs *)

\* C14: once start-up has completed, no step -- so no selection handled by
\* update_chart, whatever came before it -- changes data, crud_data,
\* query_data or all_data: same rows, same columns, same values.
C14_ReadOnlyAfterStartup ==
    [][app = "ready" =>
          /\ data' = data
          /\ crud_data' = crud_data
          /\ query_data' = query_data
          /\ all_data' = all_data]_vars

C14_Witness ==
    /\ Handled
    /\ requests > 1
    /\ selected = "operation_type"
    /\ outcome.kind = "pair"
    /\ crud_data = prepare_crud_comparison_data(data)
    /\ Len(outcome.figure.content) > 0

-----------------------------------------------------------------------------
(* Claim C15: a request does not depend on the requests before it *)

\* what update_chart comes to on the tables as start-up prepares them from
\* the loaded reports
OnStartupTables(selected_analysis) ==
    UpdateChartOn(selected_analysis,
                  prepare_crud_comparison_data(data).rows,
                  prepare_query_comparison_data(data).rows,
                  prepare_antes_despues_comparison_data(data).rows)

\* C15: whatever selections were handled before, the figure and the text
\* produced for a selection are those update_chart produces for it on the
\* tables prepared at start-up: they depend on the selection and the loaded
\* data only.
C15_HistoryIndependent ==
    Handled => outcome = OnStartupTables(selected)

C15_Witness ==
    /\ Handled
    /\ requests > 1
    /\ selected = "crud_general"
    /\ outcome.kind = "pair"
    /\ Len(outcome.figure.content) > 1

-----------------------------------------------------------------------------
(* Claim C16: the operation name of an after-period record *)

\* C16: the Operation of the record built from an after-period row is the
\* method name without its technology tag prefix and its wrapping single
\* quotes, the rest of the name being left as it is: the row written
\* EF: 'name' gives the record of operation name.
C16_TagAndQuotesStripped ==
    pc = "built" =>
        /\ Len(query_data.rows) = 1
        /\ query_data.rows[1].Operation = arg.text
        /\ Len(all_data.rows) = 1
        /\ all_data.rows[1].Operation = arg.text

-----------------------------------------------------------------------------
(* Claim C17: the callback always returns both outputs *)

\* C17: for every value it can receive -- an offered value, a cleared
\* selection, a value that is not offered -- update_chart returns a
\* (figure, text) pair.
C17_AlwaysReturnsPair ==
    Handled => outcome.kind = "pair"

-----------------------------------------------------------------------------
(* Claim C18: the view "Comparación por Tecnología (Antes vs Después)" *)

\* C18: the per-technology averages of the figure returned for
\* 'tech_comparison' are the averages over the records of both periods,
\* those of the combined table.
C18_AveragesOverBothPeriods ==
    (Handled /\ selected = "tech_comparison" /\ outcome.kind = "pair") =>
        outcome.figure.content = GroupByTechnology(all_data.rows)

-----------------------------------------------------------------------------
(* Claim C19: the three preparation routines agree *)

DespuesOf(rows) == SelectSeq(rows, LAMBDA r : r.Period = "Después")

\* the records restricted to (Operation, Technology, Time, Memory)
WithoutPeriod(rows) ==
    [i \in 1..Len(rows) |->
        [Operation |-> rows[i].Operation, Technology |-> rows[i].Technology,
         Time |-> rows[i].Time, Memory |-> rows[i].Memory]]

\* the records restricted to (Operation, Technology, Period, Time, Memory)
WithoutCategory(rows) ==
    [i \in 1..Len(rows) |->
        [Operation |-> rows[i].Operation, Technology |-> rows[i].Technology,
         Period |-> rows[i].Period,
         Time |-> rows[i].Time, Memory |-> rows[i].Memory]]

\* C19: the records of prepare_crud_comparison_data(data) are, in the same
\* order, the 'Antes' records of prepare_antes_despues_comparison_data(data)
\* without Period and Category, and the records of
\* prepare_query_comparison_data(data) are, in the same order, its 'Después'
\* records without Category; the two routines that loop over a list of
\* operations have the same sixteen names in it, in the same order.
C19_RoutinesAgree ==
    /\ operations_antes_despues = operations
    /\ app = "ready" =>
          /\ crud_data.rows = WithoutPeriod(AntesOf(all_data.rows))
          /\ query_data.rows = WithoutCategory(DespuesOf(all_data.rows))

C19_Witness ==
    /\ app = "ready"
    /\ Len(crud_data.rows) > 1
    /\ query_data.rows # <<>>
    /\ Len(all_data.rows) = Len(crud_data.rows) + Len(query_data.rows)
    /\ crud_data.rows[1].Technology # crud_data.rows[2].Technology

-----------------------------------------------------------------------------
(* Claim C20: the preparation routines leave the loaded data as it is *)

\* the table a routine returned is the one it returns on the data as loaded
ResultAsOnLoadedData(routine, table) ==
    Called(routine) => table = ResultOf(routine, data)

\* C20: whichever of the three routines run, and in whichever order, a
\* call leaves the six source tables with the columns and values they had,
\* and the table each routine returned is the one it returns on the data as
\* loaded, whatever ran before it.
C20_InputUnchanged ==
    /\ [][calls' # calls => data' = data]_vars
    /\ [](/\ ResultAsOnLoadedData("crud", crud_data)
          /\ ResultAsOnLoadedData("query", query_data)
          /\ ResultAsOnLoadedData("all", all_data))

C20_Witness ==
    /\ calls = <<"all", "crud", "query">>
    /\ app = "preparing"
    /\ data.ef_antes # <<>>
    /\ data.ef_despues # <<>>
    /\ Len(all_data.rows) > 1

-----------------------------------------------------------------------------
(* Claim C21: several before-period rows for one operation *)

\* in the table "rows": one record for the pair, with the normalized Mean
\* and Allocated of the first of the source rows
FirstRowOnly(rows, op, k) ==
    OneRecordOf(rows, op, Technologies[k], SourceRows(BeforeTableOf(k), op)[1])

\* C21: when the before-period table of a technology holds several rows
\* for one of the sixteen listed operations, the CRUD comparison table and
\* the before-period half of the combined table each hold exactly one
\* record for that (operation, technology) pair, and its Time and Memory
\* are those of the first such row in table order.
C21_FirstOfSeveralRows ==
    app \in {"crud", "query", "ready"} =>
        \A op \in ListedOperations : \A k \in 1..3 :
            Len(SourceRows(BeforeTableOf(k), op)) > 1 =>
                /\ FirstRowOnly(crud_data.rows, op, k)
                /\ app = "ready" => FirstRowOnly(AntesOf(all_data.rows), op, k)

C21_Witness ==
    /\ app = "ready"
    /\ Len(SourceRows("adonet_antes", ReadOrder)) > 1
    /\ data.adonet_antes[1].Mean # data.adonet_antes[Len(data.adonet_antes)].Mean
    /\ data.adonet_despues # <<>>
    /\ Len(RecordsFor(crud_data.rows, ReadOrder, "ADO.NET")) = 1
    /\ RecordsFor(crud_data.rows, ReadOrder, "ADO.NET")[1].Time
          = parse_time_to_microseconds(data.adonet_antes[1].Mean).num

-----------------------------------------------------------------------------
(* Claim C22: the type of an operation *)

OperationTypes == {"Create", "Read", "Update", "Delete", "Query"}

Verbs == {Create, Read, Update, Delete}

\* the verb an operation name begins with, as the name of its type
LeadingVerb(op) ==
    CASE StartsAt(op, 1, Create) -> "Create"
      [] StartsAt(op, 1, Read) -> "Read"
      [] StartsAt(op, 1, Update) -> "Update"
      [] StartsAt(op, 1, Delete) -> "Delete"
      [] OTHER -> "none"

\* the groups of the figure the record rec is averaged in
GroupsOf(rec) ==
    {g \in 1..Len(result.content) : result.content[g].key[2] = rec.Technology
                                     /\ result.content[g].key[1] = OperationType(rec.Operation)}

\* the records of a table that belong to the group of a key
RecordsOfKey(rows, key) ==
    SelectSeq(rows, LAMBDA r : OperationType(r.Operation) = key[1]
                                 /\ r.Technology = key[2])

\* C22: the analysis puts every record in exactly one (type, technology)
\* group, its type being one of Create, Read, Update, Delete and Query: the
\* type named by the leading verb for each of the sixteen listed operations,
\* 'Query' for a name holding none of the four verbs; and the table handed
\* in does not get the column OperationType.
C22_OneTypePerOperation ==
    (pc = "analysed" /\ arg.rows # <<>>) =>
        /\ ~result.raised
        /\ \A g \in 1..Len(result.content) :
              /\ result.content[g].key[1] \in OperationTypes
              /\ result.content[g]
                    = AverageRow(result.content[g].key,
                                 RecordsOfKey(arg.rows, result.content[g].key))
        /\ \A i \in 1..Len(arg.rows) :
              /\ Cardinality(GroupsOf(arg.rows[i])) = 1
              /\ arg.rows[i].Operation \in ListedOperations =>
                    OperationType(arg.rows[i].Operation) = LeadingVerb(arg.rows[i].Operation)
              /\ (\A v \in Verbs : ~Contains(arg.rows[i].Operation, v)) =>
                    OperationType(arg.rows[i].Operation) = "Query"
              /\ DOMAIN arg.rows[i] = {"Operation", "Technology", "Time", "Memory"}

C22_Witness ==
    /\ pc = "analysed"
    /\ Len(arg.rows) > 1
    /\ arg.rows[1].Operation = operations[16]
    /\ arg.rows[2].Operation = GetOrder
    /\ arg.rows[1].Technology = arg.rows[2].Technology
    /\ Len(result.content) = 2
    /\ result.content[1].key[1] = "Delete"
    /\ result.content[2].key[1] = "Query"

=============================================================================
